---- MODULE Spec2Model ----
(***************************************************************************)
(* Document assembly of the lesson-plan application: the orchestrator      *)
(* generateAllDocuments, the CTE template filler fillCTETemplate (XML      *)
(* surgery on word/document.xml) and the keyword classifiers that select   *)
(* the template's checkboxes.                                              *)
(*                                                                         *)
(* A JavaScript string is a sequence of atoms (TLA+ strings that are never *)
(* split): "" is << >>, concatenation is \o.  An XML part is a sequence of *)
(* tokens: the tags of the part and the atoms of its character data.       *)
(***************************************************************************)
EXTENDS Integers, Sequences, FiniteSets, TLC

\* ------------------------------------------------------------------ bounds
MaxDays == 2
MaxHandouts == 2

\* ------------------------------------------------------- optional values
None == << >>
Some(x) == << x >>

\* ----------------------------------------------------------- text helpers
RECURSIVE FlattenRange(_, _, _)
\* concatenation of list[lo] .. list[hi]
FlattenRange(list, lo, hi) ==
  IF lo > hi THEN << >>
  ELSE IF lo = hi THEN list[lo]
  ELSE LET mid == (lo + hi) \div 2
       IN FlattenRange(list, lo, mid) \o FlattenRange(list, mid + 1, hi)

\* concatenation of a list of sequences
Flatten(list) == FlattenRange(list, 1, Len(list))

\* Array.prototype.join: the texts of list separated by sep
Join(list, sep) ==
  Flatten([n \in 1..Len(list) |-> IF n = 1 THEN list[n] ELSE sep \o list[n]])

\* Array.prototype.filter(Boolean) on a list of strings: drops the empty ones
NonEmptyText(text) == text # << >>
filterBoolean(list) == SelectSeq(list, NonEmptyText)

\* String.prototype.toLowerCase on the atoms of the model
LowerAtom(a) ==
  CASE a = "Lighting" -> "lighting"
    [] a = "Lab" -> "lab"
    [] a = "Q&A" -> "q&a"
    [] a = "S_TOPIC" -> "s_topic"
    [] a = "S_OVW" -> "s_ovw"
    [] a = "S_OBJ" -> "s_obj"
    [] a = "S_MAT" -> "s_mat"
    [] a = "S_TIME" -> "s_time"
    [] a = "S_NAME" -> "s_name"
    [] a = "S_DESC" -> "s_desc"
    [] a = "S_VOC" -> "s_voc"
    [] a = "S_AV" -> "s_av"
    [] a = "S_STR" -> "s_str"
    [] a = "S_ELL" -> "s_ell"
    [] a = "S_TN" -> "s_tn"
    [] a = "S_STD" -> "s_std"
    [] OTHER -> a

toLowerCase(text) == [i \in 1..Len(text) |-> LowerAtom(text[i])]

\* The regular-expression alternatives of the classifiers that occur as a
\* substring of a (lower-cased) atom.  No alternative spans two atoms of the
\* model's vocabulary joined by a blank.
KeywordsIn(a) ==
  CASE a = "tripod" -> {"tripod"}
    [] a = "lighting" -> {"lighting", "light"}
    [] a = "lab" -> {"lab"}
    [] a = "discuss" -> {"discuss"}
    [] a = "q&a" -> {"q&a"}
    [] OTHER -> {}

\* RegExp.prototype.test for a pattern that is an alternation of literals
Test(alternatives, text) ==
  \E i \in 1..Len(text) : KeywordsIn(text[i]) \cap alternatives # {}

\* ------------------------------------------------------------ lesson data
\* String(x) inside a template literal: undefined prints as "undefined"
Str(opt) == IF opt = None THEN << "undefined" >> ELSE opt[1]

\* x || '' for an optional string
OrEmpty(opt) == IF opt = None THEN << >> ELSE opt[1]

SP == << " " >>
NL == << "\n" >>

\* ----------------------------------------------------- checkbox vocabularies
MATERIALS_CHECKBOXES ==
  << <<"textbook", "Textbook">>, <<"lab_manual", "Lab Manual">>,
     <<"video_dvd", "Video/DVD">>, <<"labs", "Labs">>, <<"posters", "Posters">>,
     <<"speaker", "Speaker">>, <<"projector", "Projector">>,
     <<"computer", "Computer">>,
     <<"supplemental_materials", "Supplemental Materials">>,
     <<"student_journals", "Student Journals">>,
     <<"other_equipment", "Other Equipment">> >>

METHODS_CHECKBOXES ==
  << <<"discussion", "Discussion">>, <<"demonstration", "Demonstration">>,
     <<"lecture", "Lecture">>, <<"powerpoint", "Power Point">>,
     <<"multimedia", "Multi-Media">>, <<"guest_speaker", "Guest Speaker">> >>

ASSESSMENT_CHECKBOXES ==
  << <<"homework", "Homework">>, <<"classwork", "Classwork">>,
     <<"test", "Test">>, <<"project_based", "Project-based">>,
     <<"teamwork", "Teamwork">>, <<"observation", "Teacher Observation">>,
     <<"performance", "Performance">>, <<"on_task", "On-Task">>,
     <<"other", "Other">> >>

CURRICULUM_CHECKBOXES ==
  << <<"math", "Math">>, <<"science", "Science">>, <<"reading", "Reading">>,
     <<"social_studies", "Social Studies">>, <<"english", "English">>,
     <<"government_economics", "Government/Economics">>,
     <<"fine_arts", "Fine Arts">>, <<"foreign_language", "Foreign Language">>,
     <<"technology", "Technology">> >>

OTHER_AREAS_CHECKBOXES ==
  << <<"safety", "Safety">>, <<"management_skills", "Management Skills">>,
     <<"teamwork", "Teamwork">>, <<"live_work", "Live work">>,
     <<"higher_order_reasoning", "Higher Order Reasoning">>,
     <<"varied_learning", "Varied Learning">>,
     <<"work_ethics", "Work Ethics">>,
     <<"integrated_academics", "Integrated Academics">>, <<"ctso", "CTSO">>,
     <<"problem_solving", "Problem Solving">> >>

\* ------------------------------------------------------- text of the cells
\* the description left out of the line
procedureLine_noDescription(item) ==
  LET time == OrEmpty(item.time)
      name == OrEmpty(item.name)
  IN IF time # << >> /\ name # << >> THEN time \o <<" - ">> \o name
     ELSE name

procedureLine(item) ==
  LET time == OrEmpty(item.time)
      name == OrEmpty(item.name)
      desc == OrEmpty(item.description)
  IN IF time # << >> /\ name # << >>
     THEN IF desc # << >> THEN time \o <<" - ">> \o name \o <<": ">> \o desc
                          ELSE time \o <<" - ">> \o name
     ELSE IF name # << >>
          THEN IF desc # << >> THEN name \o <<": ">> \o desc ELSE name
          ELSE << >>

buildProceduresText(schedule) ==
  IF schedule = << >> THEN << >>
  ELSE Join(filterBoolean([n \in 1..Len(schedule) |-> procedureLine(schedule[n])]),
            NL)

buildDifferentiationText(diff) ==
  LET l1 == IF diff.Advanced # << >>
            THEN << <<"Advanced Learners: ">> \o diff.Advanced >> ELSE << >>
      l2 == IF diff.Struggling # << >>
            THEN << <<"Struggling Learners: ">> \o diff.Struggling >> ELSE << >>
      l3 == IF diff.ELL # << >>
            THEN << <<"ELL Students: ">> \o diff.ELL >> ELSE << >>
  IN Join(l1 \o l2 \o l3, NL)

\* .replace(/^students will /i, '').replace(/^to /i, '') on a lower-cased text
stripObjectivePrefix(text) ==
  LET a == IF text # << >> /\ text[1] = "students will " THEN Tail(text) ELSE text
  IN IF a # << >> /\ a[1] = "to " THEN Tail(a) ELSE a

buildOverviewText(day) ==
  IF day.overview # << >> THEN day.overview
  ELSE LET first == <<"Students will learn about ">> \o day.topic \o <<".">>
       IN IF day.objectives # None /\ day.objectives[1] # << >>
          THEN first \o SP \o <<"The primary objective is to ">>
               \o stripObjectivePrefix(toLowerCase(day.objectives[1][1])) \o <<".">>
          ELSE first

\* --------------------------------------------------------- the classifiers
\* `${s.name} ${s.description}` of every schedule item, joined by blanks
scheduleText(day) ==
  Join([i \in 1..Len(day.schedule) |->
          Str(day.schedule[i].name) \o SP \o Str(day.schedule[i].description)], SP)

\* day.objectives?.join(' ') || ''
objectivesText(day) ==
  IF day.objectives = None THEN << >> ELSE Join(day.objectives[1], SP)

\* the text the methods, assessment and other-areas classifiers read
lessonText(day) ==
  toLowerCase(day.topic \o SP \o day.overview \o SP \o objectivesText(day)
              \o SP \o scheduleText(day))

\* the text inferMaterials reads: the lesson text and the day's materials
materialsText(day) ==
  toLowerCase(day.topic \o SP \o day.overview \o SP \o objectivesText(day)
              \o SP \o Join(day.day_materials, SP) \o SP \o scheduleText(day))

\* the text inferCurriculumAreas reads: no schedule
curriculumText(day) ==
  toLowerCase(day.topic \o SP \o day.overview \o SP \o objectivesText(day))

Push(cond, key) == IF cond THEN << key >> ELSE << >>

\* the equipment rule without its tripod and lighting alternatives
inferMaterials_narrowEquipmentRule(day) ==
  LET allText == materialsText(day)
  IN   Push(Test({"presentation", "present", "show", "display", "screen",
                  "projector", "slides", "powerpoint"}, allText), "projector")
    \o Push(Test({"computer", "premiere", "photoshop", "editing", "software",
                  "digital", "laptop"}, allText), "computer")
    \o Push(Test({"video", "watch", "film", "movie", "clip", "youtube", "dvd"},
                 allText), "video_dvd")
    \o Push(Test({"lab", "studio", "hands-on", "practice", "filming", "shoot",
                  "record"}, allText), "labs")
    \o Push(Test({"audio", "sound", "music", "listen", "speaker", "playback"},
                 allText), "speaker")
    \o Push(Test({"handout", "worksheet", "guide", "reference", "template",
                  "storyboard", "script"}, allText), "supplemental_materials")
    \o Push(Test({"camera", "microphone", "mic", "equipment", "gear"}, allText),
            "other_equipment")
    \o Push(Test({"journal", "notebook", "notes", "reflection"}, allText),
            "student_journals")
    \o Push(Test({"poster", "chart", "diagram", "visual aid"}, allText), "posters")

inferMaterials(day) ==
  LET allText == materialsText(day)
  IN   Push(Test({"presentation", "present", "show", "display", "screen",
                  "projector", "slides", "powerpoint"}, allText), "projector")
    \o Push(Test({"computer", "premiere", "photoshop", "editing", "software",
                  "digital", "laptop"}, allText), "computer")
    \o Push(Test({"video", "watch", "film", "movie", "clip", "youtube", "dvd"},
                 allText), "video_dvd")
    \o Push(Test({"lab", "studio", "hands-on", "practice", "filming", "shoot",
                  "record"}, allText), "labs")
    \o Push(Test({"audio", "sound", "music", "listen", "speaker", "playback"},
                 allText), "speaker")
    \o Push(Test({"handout", "worksheet", "guide", "reference", "template",
                  "storyboard", "script"}, allText), "supplemental_materials")
    \o Push(Test({"camera", "tripod", "lighting", "light", "microphone", "mic",
                  "equipment", "gear"}, allText), "other_equipment")
    \o Push(Test({"journal", "notebook", "notes", "reflection"}, allText),
            "student_journals")
    \o Push(Test({"poster", "chart", "diagram", "visual aid"}, allText), "posters")

\* inferMethods dereferences s.name of every schedule item: s.name.toLowerCase()
inferMethodsThrows(day) ==
  \E i \in 1..Len(day.schedule) : day.schedule[i].name = None

inferMethods(day) ==
  LET allText == lessonText(day)
      activityNames == [i \in 1..Len(day.schedule) |->
                          toLowerCase(Str(day.schedule[i].name))]
  IN   Push(Test({"discussion", "discuss", "debate", "share", "q&a"}, allText),
            "discussion")
    \o Push(Test({"demonstrat", "show how", "model", "walk through", "tutorial"},
                 allText), "demonstration")
    \o Push((\E i \in 1..Len(activityNames) :
               Test({"direct instruction", "lecture", "mini-lecture",
                     "instruction"}, activityNames[i]))
            \/ Test({"lecture", "direct instruction", "teach", "explain",
                     "present content", "introduce"}, allText), "lecture")
    \o Push(Test({"powerpoint", "presentation", "slides"}, allText), "powerpoint")
    \o Push(Test({"video", "multimedia", "multi-media", "youtube", "film",
                  "audio", "digital"}, allText), "multimedia")
    \o Push(Test({"guest speaker", "guest", "industry professional", "visitor"},
                 allText), "guest_speaker")

inferAssessment(day) ==
  LET allText == lessonText(day)
  IN   Push(Test({"classwork", "class work", "activity", "practice", "exercise",
                  "in-class", "exit ticket"}, allText), "classwork")
    \o Push(Test({"observ", "monitor", "circulate", "watch", "check in"},
                 allText), "observation")
    \o Push(Test({"project", "final", "deliverable", "portfolio", "create",
                  "produce"}, allText), "project_based")
    \o Push(Test({"team", "group", "partner", "collaborat", "crew", "together",
                  "peer"}, allText), "teamwork")
    \o Push(Test({"perform", "present", "demonstrat", "show", "pitch"}, allText),
            "performance")
    \o Push(Test({"participat", "engag", "on-task", "focused", "active"},
                 allText), "on_task")
    \o Push(Test({"test", "quiz", "exam"}, allText), "test")
    \o Push(Test({"homework", "home work", "take home", "assignment"}, allText),
            "homework")

inferCurriculumAreas(day) ==
  LET allText == curriculumText(day)
  IN   Push(Test({"camera", "editing", "software", "premiere", "photoshop",
                  "computer", "digital", "video", "audio"}, allText), "technology")
    \o Push(Test({"script", "writing", "story", "narrative", "interview", "news"},
                 allText), "english")
    \o Push(Test({"reading", "research", "article"}, allText), "reading")
    \o Push(Test({"composition", "visual", "design", "aesthetic", "creative",
                  "color", "lighting", "framing"}, allText), "fine_arts")
    \o Push(Test({"exposure", "ratio", "frame rate", "aperture", "shutter speed",
                  "iso"}, allText), "math")
    \o Push(Test({"light", "sound wave", "physics", "optics"}, allText), "science")
    \o Push(Test({"history", "documentary", "social", "community", "news", "psa",
                  "public service"}, allText), "social_studies")

\* day.differentiation is an object, hence truthy: varied_learning is always
\* selected
inferOtherAreas(day, curriculumAreas) ==
  LET allText == lessonText(day)
  IN   Push(Test({"safety", "equipment", "handling", "protective", "hazard"},
                 allText), "safety")
    \o Push(Test({"time management", "organize", "planning", "schedule",
                  "workflow", "deadline"}, allText), "management_skills")
    \o Push(Test({"team", "group", "collaborat", "partner", "crew", "together"},
                 allText), "teamwork")
    \o Push(Test({"client", "real-world", "live production", "community partner"},
                 allText), "live_work")
    \o Push(Test({"analyze", "evaluat", "create", "critiqu", "compare", "design",
                  "develop"}, allText), "higher_order_reasoning")
    \o Push(TRUE, "varied_learning")
    \o Push(Test({"professional", "responsibility", "deadline", "quality",
                  "industry standard"}, allText), "work_ethics")
    \o Push(curriculumAreas # << >>, "integrated_academics")
    \o Push(Test({"skillsusa", "ctso", "competition", "career development",
                  "leadership"}, allText), "ctso")
    \o Push(Test({"problem", "solve", "troubleshoot", "debug", "fix", "challenge",
                  "solution"}, allText), "problem_solving")

\* -------------------------------------------------------------- XML tokens
\* tags that begin with "<w:tr": what /<w:tr[^>]*>/ accepts as a row start
RowOpenTags == {"<w:tr>", "<w:trPr/>"}
\* tags that begin with "<w:tc": what /<w:tc[^>]*>/ accepts as a cell start
CellOpenTags == {"<w:tc>", "<w:tcPr/>"}
\* tags that begin with "<w:p": what /<w:p[^>]*>/ accepts as a paragraph start
ParaOpenTags == {"<w:p>", "<w:pPr/>", "<w:p/>"}
\* what /<w:t[\s>]/ or /<w:t\/>/ accepts: the text elements
TextElementTags == {"<w:t>", "<w:t xml:space=\"preserve\">", "<w:t/>"}
\* tags that begin with "<w:t": what /<w:t[^>]*>/ accepts
TextOpenTags == TextElementTags \cup RowOpenTags \cup CellOpenTags
                  \cup {"<w:tbl>", "<w:tab/>"}
\* the colour elements the three colour patterns of setCellText remove:
\* FF0000, C00000 and every value of the form XX0000
RemovedColorTags == {"<w:color w:val=\"FF0000\"/>", "<w:color w:val=\"C00000\"/>",
                     "<w:color w:val=\"000000\"/>"}
OtherTags == {"</w:tr>", "</w:tc>", "</w:p>", "<w:r>", "</w:r>", "</w:t>",
              "</w:tbl>", "<w:rPr>", "</w:rPr>", "<w:b/>",
              "<w:color w:val=\"0000FF\"/>", "<w:body>", "</w:body>",
              "<w:sectPr/>", "<w:styles/>", "<Types/>"}
Tags == RowOpenTags \cup CellOpenTags \cup ParaOpenTags \cup TextOpenTags
          \cup RemovedColorTags \cup OtherTags

\* a token of character data that [^<]* accepts: no "<" in it
IsCharData(tok) == tok \notin Tags /\ tok # "<b>"

\* newText.replace(/&/g,'&amp;').replace(/</g,'&lt;').replace(/>/g,'&gt;')
EscapeAtom(a) ==
  CASE a = "Q&A" -> "Q&amp;A"
    [] a = "<b>" -> "&lt;b&gt;"
    [] OTHER -> a

escapeXml(text) == [i \in 1..Len(text) |-> EscapeAtom(text[i])]

\* the least element of a non-empty set of positions
Least(S) == CHOOSE x \in S : \A y \in S : x <= y

RECURSIVE MatchFrom(_, _, _)
\* the matches at or after from, given the positions of the opening tags and
\* of the closing tag: a match runs from the first opening tag to the first
\* closing tag after it (the quantifier is lazy), the next one starts after it
MatchFrom(openAt, closeAt, from) ==
  LET os == {x \in openAt : x >= from}
  IN IF os = {} THEN << >>
     ELSE LET a == Least(os)
              cs == {x \in closeAt : x > a}
          IN IF cs = {} THEN << >>
             ELSE << <<a, Least(cs)>> >> \o MatchFrom(openAt, closeAt, Least(cs) + 1)

\* the successive matches of /<open[^>]*>[\s\S]*?<close>/g from position from,
\* each as <<first, last>>
MatchAll(xml, opens, close, from) ==
  MatchFrom({x \in 1..Len(xml) : xml[x] \in opens},
            {x \in 1..Len(xml) : xml[x] = close}, from)

getTableCells(documentXml) ==
  LET rowMatches == MatchAll(documentXml, RowOpenTags, "</w:tr>", 1)
  IN [r \in 1..Len(rowMatches) |->
        LET rowXml == SubSeq(documentXml, rowMatches[r][1], rowMatches[r][2])
            cellMatches == MatchAll(rowXml, CellOpenTags, "</w:tc>", 1)
        IN [c \in 1..Len(cellMatches) |->
              SubSeq(rowXml, cellMatches[c][1], cellMatches[c][2])]]

\* cells[rowIndex]?.[cellIndex] is truthy (indices count from 0)
HasCell(cells, rowIndex, cellIndex) ==
  /\ rowIndex + 1 <= Len(cells)
  /\ cellIndex + 1 <= Len(cells[rowIndex + 1])

CellOf(cells, rowIndex, cellIndex) == cells[rowIndex + 1][cellIndex + 1]

\* the cells that follow the replaced one are not copied back into the row
replaceCell_dropsRestOfRow(documentXml, rowIndex, cellIndex, newCellXml) ==
  LET rowMatches == MatchAll(documentXml, RowOpenTags, "</w:tr>", 1)
  IN IF rowIndex + 1 > Len(rowMatches) THEN documentXml
     ELSE LET ri == rowMatches[rowIndex + 1][1]
              rj == rowMatches[rowIndex + 1][2]
              rowXml == SubSeq(documentXml, ri, rj)
              cellMatches == MatchAll(rowXml, CellOpenTags, "</w:tc>", 1)
          IN IF cellIndex + 1 > Len(cellMatches) THEN documentXml
             ELSE LET ci == cellMatches[cellIndex + 1][1]
                      newRow == SubSeq(rowXml, 1, ci - 1) \o newCellXml
                                  \o <<"</w:tr>">>
                  IN SubSeq(documentXml, 1, ri - 1) \o newRow
                       \o SubSeq(documentXml, rj + 1, Len(documentXml))

replaceCell(documentXml, rowIndex, cellIndex, newCellXml) ==
  LET rowMatches == MatchAll(documentXml, RowOpenTags, "</w:tr>", 1)
  IN IF rowIndex + 1 > Len(rowMatches) THEN documentXml
     ELSE LET ri == rowMatches[rowIndex + 1][1]
              rj == rowMatches[rowIndex + 1][2]
              rowXml == SubSeq(documentXml, ri, rj)
              cellMatches == MatchAll(rowXml, CellOpenTags, "</w:tc>", 1)
          IN IF cellIndex + 1 > Len(cellMatches) THEN documentXml
             ELSE LET ci == cellMatches[cellIndex + 1][1]
                      cj == cellMatches[cellIndex + 1][2]
                      newRow == SubSeq(rowXml, 1, ci - 1) \o newCellXml
                                  \o SubSeq(rowXml, cj + 1, Len(rowXml))
                  IN SubSeq(documentXml, 1, ri - 1) \o newRow
                       \o SubSeq(documentXml, rj + 1, Len(documentXml))

\* ------------------------------------------------------------- setCellText
\* String.prototype.replace(pattern, '') for a pattern that matches whole tags
RemoveTokens(xml, set) ==
  LET Kept(tok) == tok \notin set
  IN SelectSeq(xml, Kept)

\* the position of the "</w:t>" that ends a match of
\* /<w:t[^>]*>([^<]*)<\/w:t>/ starting at k, 0 when there is no match at k
TextMatchEnd(xml, k) ==
  IF xml[k] \notin TextOpenTags THEN 0
  ELSE LET stop == {m \in (k + 1)..Len(xml) : ~IsCharData(xml[m])}
           m0 == IF stop = {} THEN 0
                 ELSE CHOOSE m \in stop : \A n \in stop : m <= n
       IN IF m0 # 0 /\ xml[m0] = "</w:t>" THEN m0 ELSE 0

\* result.replace(textPattern, callback): the first match receives the text,
\* every later match is emptied. A match holds no opening tag but its own, so
\* the matches are the positions where the pattern matches.
ReplaceTextElements(xml, escapedText) ==
  LET ends == [k \in 1..Len(xml) |-> TextMatchEnd(xml, k)]
      starts == {k \in 1..Len(xml) : ends[k] # 0}
      inMatch == {m \in 1..Len(xml) : \E k \in starts : k < m /\ m <= ends[k]}
      Piece(m) ==
        IF m \in starts
        THEN IF m = Least(starts)
             THEN <<"<w:t xml:space=\"preserve\">">> \o escapedText \o <<"</w:t>">>
             ELSE <<"<w:t>", "</w:t>">>
        ELSE IF m \in inMatch THEN << >>
        ELSE << xml[m] >>
  IN Flatten([m \in 1..Len(xml) |-> Piece(m)])

\* the text as part of the replacement string `$1$2${newRun}$3`: the atom "$1"
\* is replaced by the first group, the opening tag of the paragraph, the atom
\* "$2" by the second group, the content of the paragraph, and "$$" by "$"
ExpandDollar(escapedText, group1, group2) ==
  Flatten([n \in 1..Len(escapedText) |->
             CASE escapedText[n] = "$1" -> << group1 >>
               [] escapedText[n] = "$2" -> group2
               [] escapedText[n] = "$$" -> << "$" >>
               [] OTHER -> << escapedText[n] >>])

InsertRun(xml, escapedText) ==
  LET m == MatchAll(xml, ParaOpenTags, "</w:p>", 1)
  IN IF m = << >> THEN xml
     ELSE LET j == m[1][2]
          IN SubSeq(xml, 1, j - 1)
               \o <<"<w:r>", "<w:t xml:space=\"preserve\">">>
               \o ExpandDollar(escapedText, xml[m[1][1]],
                               SubSeq(xml, m[1][1] + 1, j - 1))
               \o <<"</w:t>", "</w:r>">>
               \o SubSeq(xml, j, Len(xml))

setCellText(cellXml, newText) ==
  LET result == RemoveTokens(cellXml, RemovedColorTags)
      escapedText == escapeXml(newText)
      hasTextElements == \E k \in 1..Len(result) : result[k] \in TextElementTags
  IN IF hasTextElements
     THEN ReplaceTextElements(result, escapedText)
     ELSE InsertRun(result, escapedText)

\* ---------------------------------------------------------- markCheckboxes
IsUnderscores(tok) == tok \in {"_", "___"}
IsBlank(tok) == tok \in {" ", "  "}

\* the labels as they may be written in a template, lower-cased
LowerLabel(a) ==
  CASE a = "Textbook" -> "textbook"
    [] a = "TEXTBOOK" -> "textbook"
    [] a = "Labs" -> "labs"
    [] a = "Other Equipment" -> "other equipment"
    [] a = "Discussion" -> "discussion"
    [] a = "Lecture" -> "lecture"
    [] a = "Classwork" -> "classwork"
    [] a = "Test" -> "test"
    [] a = "Science" -> "science"
    [] a = "Fine Arts" -> "fine arts"
    [] a = "Varied Learning" -> "varied learning"
    [] a = "Safety" -> "safety"
    [] OTHER -> a

\* the position of the label token that ends a match of /_+\s*label/gi
\* starting at k, 0 when there is no match at k
CheckboxMatchEnd(xml, k, label) ==
  IF ~IsUnderscores(xml[k]) THEN 0
  ELSE LET rest == {m \in (k + 1)..Len(xml) : ~IsUnderscores(xml[m])}
           u == IF rest = {} THEN 0
                ELSE CHOOSE m \in rest : \A n \in rest : m <= n
           after == {m \in u..Len(xml) : ~IsBlank(xml[m])}
           l == IF u = 0 \/ after = {} THEN 0
                ELSE CHOOSE m \in after : \A n \in after : m <= n
       IN IF l # 0 /\ LowerLabel(xml[l]) = LowerLabel(label) THEN l ELSE 0

\* result.replace(pattern, `X ${label}`): a match starts at the first token of
\* a run of underscores and ends with the label (first: the pattern without
\* its i flag)
MarkLabel_caseSensitive(xml, label) ==
  LET ends == [k \in 1..Len(xml) |->
                 IF CheckboxMatchEnd(xml, k, label) # 0
                    /\ xml[CheckboxMatchEnd(xml, k, label)] = label
                 THEN CheckboxMatchEnd(xml, k, label) ELSE 0]
      starts == {k \in 1..Len(xml) :
                   ends[k] # 0 /\ (k = 1 \/ ~IsUnderscores(xml[k - 1]))}
      inMatch == {m \in 1..Len(xml) : \E k \in starts : k < m /\ m <= ends[k]}
      Piece(m) ==
        IF m \in starts THEN <<"X ", label>>
        ELSE IF m \in inMatch THEN << >>
        ELSE << xml[m] >>
  IN Flatten([m \in 1..Len(xml) |-> Piece(m)])
MarkLabel(xml, label) ==
  LET ends == [k \in 1..Len(xml) |-> CheckboxMatchEnd(xml, k, label)]
      starts == {k \in 1..Len(xml) :
                   ends[k] # 0 /\ (k = 1 \/ ~IsUnderscores(xml[k - 1]))}
      inMatch == {m \in 1..Len(xml) : \E k \in starts : k < m /\ m <= ends[k]}
      Piece(m) ==
        IF m \in starts THEN <<"X ", label>>
        ELSE IF m \in inMatch THEN << >>
        ELSE << xml[m] >>
  IN Flatten([m \in 1..Len(xml) |-> Piece(m)])

RECURSIVE markCheckboxesFrom(_, _, _, _)
\* (text = text: result holds a string when the next label is looked at)
markCheckboxesFrom(text, checkboxMap, selected, n) ==
  IF text = text /\ n > Len(checkboxMap) THEN text
  ELSE markCheckboxesFrom(
         IF \E i \in 1..Len(selected) : selected[i] = checkboxMap[n][1]
         THEN MarkLabel(text, checkboxMap[n][2]) ELSE text,
         checkboxMap, selected, n + 1)

markCheckboxes(text, checkboxMap, selected) ==
  markCheckboxesFrom(text, checkboxMap, selected, 1)

\* --------------------------------------------------------- fillCTETemplate
DOCUMENT_XML == "word/document.xml"

\* one fill of the row/cell mapping: the new XML of the cell found there
TextFill(rowIndex, cellIndex, text) ==
  [row |-> rowIndex, cell |-> cellIndex, kind |-> "text", text |-> text,
   map |-> << >>, selected |-> << >>]
CheckFill(rowIndex, cellIndex, checkboxMap, selected) ==
  [row |-> rowIndex, cell |-> cellIndex, kind |-> "checkboxes", text |-> << >>,
   map |-> checkboxMap, selected |-> selected]

\* the fills of fillCTETemplate, in the order the code performs them
CellFills(lessonPlan, day) ==
  LET curriculumAreas == inferCurriculumAreas(day)
  IN << TextFill(1, 0, <<"Week: ">> \o lessonPlan.week),
        TextFill(1, 1, <<"Course Title: Media Foundations">>),
        TextFill(2, 0, <<"Topic: ">> \o day.topic),
        TextFill(2, 1, <<"Estimate duration in minutes: 90">>),
        TextFill(5, 0, day.content_standards),
        TextFill(7, 0, buildOverviewText(day)),
        CheckFill(7, 1, MATERIALS_CHECKBOXES, inferMaterials(day)),
        TextFill(9, 0, buildProceduresText(day.schedule)),
        CheckFill(11, 0, METHODS_CHECKBOXES, inferMethods(day)),
        CheckFill(13, 0, ASSESSMENT_CHECKBOXES, inferAssessment(day)),
        TextFill(13, 1, buildDifferentiationText(day.differentiation)),
        CheckFill(15, 0, CURRICULUM_CHECKBOXES, curriculumAreas),
        CheckFill(17, 0, OTHER_AREAS_CHECKBOXES,
                  inferOtherAreas(day, curriculumAreas)) >>

NewCell(cellXml, fill) ==
  IF fill.kind = "text" THEN setCellText(cellXml, fill.text)
  ELSE markCheckboxes(cellXml, fill.map, fill.selected)

RECURSIVE ApplyFills_stopsAtMissing(_, _, _, _)
\* the first missing cell ends the filling
ApplyFills_stopsAtMissing(documentXml, cells, fills, n) ==
  IF documentXml = documentXml /\ n > Len(fills) THEN documentXml
  ELSE LET f == fills[n]
       IN IF HasCell(cells, f.row, f.cell)
          THEN ApplyFills_stopsAtMissing(
                 replaceCell(documentXml, f.row, f.cell,
                             NewCell(CellOf(cells, f.row, f.cell), f)),
                 cells, fills, n + 1)
          ELSE documentXml

RECURSIVE ApplyFills(_, _, _, _)
\* if (cells[r]?.[c]) { documentXml = replaceCell(documentXml, r, c, newCell) }
\* for the fills from the n-th on; cells are those of the template as read
\* (documentXml = documentXml: the variable holds a string when the next fill
\* starts)
ApplyFills(documentXml, cells, fills, n) ==
  IF documentXml = documentXml /\ n > Len(fills) THEN documentXml
  ELSE LET f == fills[n]
       IN ApplyFills(
            IF HasCell(cells, f.row, f.cell)
            THEN replaceCell(documentXml, f.row, f.cell,
                             NewCell(CellOf(cells, f.row, f.cell), f))
            ELSE documentXml,
            cells, fills, n + 1)

Threw(message) == [threw |-> TRUE, message |-> message, buffer |-> << >>]
Returned(buffer) == [threw |-> FALSE, message |-> << >>, buffer |-> << buffer >>]

\* the message of the error for a day index without a day
dayIndexError_noNumbers(dayIndex, count) == <<"Day index out of range.">>

dayIndexError(dayIndex, count) ==
  <<"Day index ", ToString(dayIndex), " out of range. Lesson plan has ",
    ToString(count), " days.">>

\* the outcome of fillCTETemplate(templateBuffer, lessonPlan, dayIndex)
fillCTETemplate(templateBuffer, lessonPlan, dayIndex) ==
  IF ~(dayIndex >= 0 /\ dayIndex < Len(lessonPlan.days))
  THEN Threw(dayIndexError(dayIndex, Len(lessonPlan.days)))
  ELSE LET day == lessonPlan.days[dayIndex + 1]
       IN IF ~templateBuffer.isZip
          THEN Threw(<<"Can't find end of central directory : is this a zip file ?">>)
          ELSE IF DOCUMENT_XML \notin DOMAIN templateBuffer.parts
          THEN Threw(<<"Invalid DOCX file: missing word/document.xml">>)
          ELSE IF inferMethodsThrows(day)
          THEN Threw(<<"Cannot read properties of undefined (reading 'toLowerCase')">>)
          ELSE LET documentXml == templateBuffer.parts[DOCUMENT_XML]
                   cells == getTableCells(documentXml)
                   filled == ApplyFills(documentXml, cells,
                                        CellFills(lessonPlan, day), 1)
               IN Returned([isZip |-> TRUE,
                            parts |-> [templateBuffer.parts
                                         EXCEPT ![DOCUMENT_XML] = filled]])

\* ------------------------------------------------------------ the templates
Run(atoms) == <<"<w:r>", "<w:t>">> \o atoms \o <<"</w:t>", "</w:r>">>
RedRun(atoms) ==
  <<"<w:r>", "<w:rPr>", "<w:color w:val=\"FF0000\"/>", "</w:rPr>", "<w:t>">>
    \o atoms \o <<"</w:t>", "</w:r>">>
Para(runs) == <<"<w:p>">> \o runs \o <<"</w:p>">>
Cell(content) == <<"<w:tc>", "<w:tcPr/>">> \o content \o <<"</w:tc>">>
Row(cellList) == <<"<w:tr>", "<w:trPr/>">> \o Flatten(cellList) \o <<"</w:tr>">>

LabelCell(atom) == Cell(Para(Run(<<atom>>)))
\* a value cell holding red guidance text split over two runs
GuidanceCell(atom) == Cell(Para(RedRun(<<atom>>) \o Run(<<"here">>)))
\* a value cell without any run
EmptyCell == Cell(Para(<< >>))
\* a checkbox cell: "___ label" for every label, each in a run of its own
CheckboxCell(labels) ==
  Cell(Para(Flatten([i \in 1..Len(labels) |->
                       Run(<<"___", " ", labels[i]>>)])))

\* the rows of the 18-row CTE layout; wide adds the third cell of rows 13-17
TemplateRows(wide) ==
  << Row(<<LabelCell("CTE Lesson Plan")>>),
     Row(<<LabelCell("Week:"), LabelCell("Course Title:")>>),
     Row(<<LabelCell("Topic:"), GuidanceCell("Duration:")>>),
     Row(<<LabelCell("Teacher")>>),
     Row(<<LabelCell("Content Standards")>>),
     Row(<<GuidanceCell("standards")>>),
     Row(<<LabelCell("Overview"), LabelCell("Materials")>>),
     Row(<<EmptyCell, CheckboxCell(<<"TEXTBOOK", "Labs", "Other Equipment">>)>>),
     Row(<<LabelCell("Procedures")>>),
     Row(<<GuidanceCell("procedures")>>),
     Row(<<LabelCell("Methods")>>),
     Row(<<CheckboxCell(<<"Discussion", "Lecture">>)>>),
     Row(<<LabelCell("Assessment"), LabelCell("Differentiation")>>),
     Row(<<CheckboxCell(<<"Classwork", "Test">>), GuidanceCell("strategies")>>
         \o (IF wide THEN <<LabelCell("spare13")>> ELSE << >>)),
     Row(<<LabelCell("Curriculum"), LabelCell("Embedded Credit")>>),
     Row(<<CheckboxCell(<<"Science", "Fine Arts">>), EmptyCell>>
         \o (IF wide THEN <<LabelCell("spare15")>> ELSE << >>)),
     Row(<<LabelCell("Other Areas"), LabelCell("Evaluation")>>),
     Row(<<CheckboxCell(<<"Safety", "Varied Learning">>), EmptyCell>>
         \o (IF wide THEN <<LabelCell("spare17")>> ELSE << >>)) >>

\* a row cut down to its first cell
NarrowRow(rowXml) ==
  LET m == MatchAll(rowXml, CellOpenTags, "</w:tc>", 1)
  IN IF Len(m) <= 1 THEN rowXml
     ELSE SubSeq(rowXml, 1, m[1][2]) \o <<"</w:tr>">>

\* document.xml with the first nRows rows of the layout; narrowRows are the
\* (0-based) rows cut down to one cell
DocumentXml(nRows, wide, narrowRows) ==
  <<"<w:body>", "<w:p>">> \o Run(<<"preamble">>) \o <<"</w:p>", "<w:tbl>">>
    \o Flatten([r \in 1..nRows |->
                  IF (r - 1) \in narrowRows THEN NarrowRow(TemplateRows(wide)[r])
                  ELSE TemplateRows(wide)[r]])
    \o <<"</w:tbl>", "<w:sectPr/>", "</w:body>">>

Archive(documentXml) ==
  [isZip |-> TRUE,
   parts |-> [n \in {DOCUMENT_XML, "word/styles.xml", "[Content_Types].xml"} |->
                CASE n = DOCUMENT_XML -> documentXml
                  [] n = "word/styles.xml" -> <<"<w:styles/>">>
                  [] OTHER -> <<"<Types/>">>]]

\* bytes that are no ZIP archive at all
NotAnArchive == [isZip |-> FALSE, parts |-> << >>]
\* a ZIP archive without the main document part
NoDocumentArchive ==
  [isZip |-> TRUE, parts |-> [n \in {"word/styles.xml"} |-> <<"<w:styles/>">>]]

\* ------------------------------------------------------------ loadTemplate
DEFAULT_TEMPLATE_ID == "default-cte"

\* readFile of the bundled asset; the asset may be missing from the deployment
loadDefaultTemplate(env) ==
  IF env.defaultAsset = None
  THEN Threw(<<"Default template not found">>)
  ELSE Returned(env.defaultAsset[1])

\* a failed download is thrown to the caller
loadTemplate_surfacesDownloadError(env, templateId) ==
  IF templateId = DEFAULT_TEMPLATE_ID THEN loadDefaultTemplate(env)
  ELSE IF env.lookup = "throws" THEN loadDefaultTemplate(env)
  ELSE IF env.lookup \in {"error", "no_file_path"} THEN loadDefaultTemplate(env)
  ELSE IF env.download = "throws" THEN loadDefaultTemplate(env)
  ELSE IF env.download \in {"error", "no_data"}
  THEN Threw(<<"Failed to download template">>)
  ELSE Returned(env.stored)

\* env.lookup: what supabase.from('templates')...single() does; env.download:
\* what supabase.storage...download() does; env.stored: the stored bytes
loadTemplate(env, templateId) ==
  IF templateId = DEFAULT_TEMPLATE_ID THEN loadDefaultTemplate(env)
  ELSE IF env.lookup = "throws" THEN loadDefaultTemplate(env)
  ELSE IF env.lookup \in {"error", "no_file_path"} THEN loadDefaultTemplate(env)
  ELSE IF env.download = "throws" THEN loadDefaultTemplate(env)
  ELSE IF env.download \in {"error", "no_data"} THEN loadDefaultTemplate(env)
  ELSE Returned(env.stored)

\* ------------------------------------------------- the scratch generators
\* day.objectives.map(...) on a day without objectives raises a TypeError
generateLessonPlanDocxThrows(day) == day.objectives = None

generateLessonPlanDocx(day, weekNumber, dayNumber, unit) ==
  [by |-> "generateLessonPlanDocx", unit |-> unit, weekNumber |-> weekNumber,
   dayNumber |-> dayNumber, topic |-> day.topic, objectives |-> day.objectives,
   schedule |-> day.schedule, differentiation |-> day.differentiation,
   content_standards |-> day.content_standards]

generateTeacherHandout(lessonPlan, weekNumber) ==
  [by |-> "generateTeacherHandout", weekNumber |-> weekNumber,
   unit |-> lessonPlan.unit, days |-> lessonPlan.days]

generateStudentHandout(handout, weekNumber) ==
  [by |-> "generateStudentHandout", handout |-> handout]

\* ------------------------------------------------------------- file names
DOCX_MIME ==
  "application/vnd.openxmlformats-officedocument.wordprocessingml.document"

\* parseInt of the week strings of the model
parseInt(week) ==
  CASE week = <<"3">> -> 3
    [] week = <<"12">> -> 12
    [] OTHER -> 0

\* the week number is not padded
padStart2_unpadded(n) == <<ToString(n)>>

\* String(weekNum).padStart(2, '0')
padStart2(n) == IF n < 10 THEN <<"0", ToString(n)>> ELSE <<ToString(n)>>

\* s.replace(/[^a-zA-Z0-9]/g, '_') on the atoms of the model
SlugAtom(a) ==
  CASE a = "Q&A" -> "Q_A"
    [] a = "<b>" -> "_b_"
    [] OTHER -> a

lessonPlanFilename(weekStr, dayNum, day) ==
  <<"Week">> \o weekStr \o <<"_Day", ToString(dayNum), "_">>
    \o [j \in 1..Len(day.topic) |-> SlugAtom(day.topic[j])] \o <<".docx">>

\* names and units are strings of single characters
AlphaNum ==
  {"a", "b", "c", "d", "e", "f", "g", "h", "i", "j", "k", "l", "m", "n", "o", "p",
   "q", "r", "s", "t", "u", "v", "w", "x", "y", "z", "A", "B", "C", "D", "E", "F",
   "G", "H", "I", "J", "K", "L", "M", "N", "O", "P", "Q", "R", "S", "T", "U", "V",
   "W", "X", "Y", "Z", "0", "1", "2", "3", "4", "5", "6", "7", "8", "9"}

\* the characters \s matches
Whitespace == {" ", "\t", "\n"}

\* .replace(/\s+/g, '_'): every maximal run of whitespace becomes one "_"
underscoreWhitespace(chars) ==
  LET Piece(m) ==
        IF chars[m] \notin Whitespace THEN << chars[m] >>
        ELSE IF m = 1 \/ chars[m - 1] \notin Whitespace THEN << "_" >>
        ELSE << >>
  IN Flatten([m \in 1..Len(chars) |-> Piece(m)])

\* [a-zA-Z0-9_-]
IsSlugChar(c) == c \in AlphaNum \cup {"_", "-"}

\* .replace(/[^a-zA-Z0-9_-]/g, '')
removeNonSlugChars(chars) == SelectSeq(chars, IsSlugChar)

\* .slice(0, n)
slice0(chars, n) == SubSeq(chars, 1, IF Len(chars) < n THEN Len(chars) ELSE n)

\* the slug is not cut
nameSlug_uncut(text, fallback, limit) ==
  removeNonSlugChars(underscoreWhitespace(IF text = << >> THEN fallback ELSE text))

\* (text || fallback).replace(/\s+/g, '_').replace(/[^a-zA-Z0-9_-]/g, '')
\*   .slice(0, limit)
nameSlug(text, fallback, limit) ==
  slice0(removeNonSlugChars(underscoreWhitespace(
           IF text = << >> THEN fallback ELSE text)), limit)

getTeacherHandoutFilename(lessonPlan, weekNumber) ==
  <<"Week", ToString(weekNumber), "_">>
    \o nameSlug(lessonPlan.unit, <<"U", "n", "i", "t">>, 30)
    \o <<"_TeacherHandout.docx">>

getStudentHandoutFilename(handout) ==
  nameSlug(handout.name, <<"H", "a", "n", "d", "o", "u", "t">>, 25)
    \o <<"_StudentHandout.docx">>

GeneratedFile(name, content, type) ==
  [name |-> name, content |-> content, mimeType |-> DOCX_MIME, type |-> type]

\* ------------------------------------------------------------------ inputs
Item(time, name, description) ==
  [time |-> time, name |-> name, description |-> description]

Diff(a, s, e) == [Advanced |-> a, Struggling |-> s, ELL |-> e]

Day(topic, overview, objectives, materials, schedule, diff) ==
  [topic |-> topic, overview |-> overview, objectives |-> objectives,
   day_materials |-> materials, schedule |-> schedule,
   vocabulary |-> << <<"S_VOC", "S_VOC">> >>, differentiation |-> diff,
   teacher_notes |-> <<"S_TN">>, content_standards |-> <<"S_STD">>]

\* a day whose every field is a sentinel of its own
SentinelDay ==
  Day(<<"S_TOPIC">>, <<"S_OVW">>, Some(<< <<"S_OBJ">> >>), << <<"S_MAT">> >>,
      << Item(Some(<<"S_TIME">>), Some(<<"S_NAME">>), Some(<<"S_DESC">>)) >>,
      Diff(<<"S_AV">>, <<"S_STR">>, <<"S_ELL">>))

\* a day about camera work, without an overview
EquipmentDay ==
  Day(<<"tripod">>, << >>, Some(<< <<"Lighting">>, <<"Q&A">> >>), << >>,
      << Item(Some(<<"9:00">>), Some(<<"Lab">>), Some(<<"discuss">>)),
         Item(Some(<< >>), Some(<< >>), Some(<<"sonnet">>)) >>,
      Diff(<<"haiku">>, << >>, << >>))

\* a day none of whose words is a keyword; the keyword is in the materials
PoetryDay ==
  Day(<<"sonnet">>, <<"haiku">>, Some(<< >>), << <<"tripod">> >>, << >>,
      Diff(<< >>, << >>, << >>))

\* a day with a schedule entry that has no name
NamelessItemDay ==
  Day(<<"sonnet">>, <<"<b>">>, Some(<< <<"haiku">> >>), << >>,
      << Item(Some(<<"9:00">>), None, Some(<<"haiku">>)) >>,
      Diff(<<"haiku">>, <<"haiku">>, << >>))

\* a day without objectives: not a DayPlan
NoObjectivesDay ==
  Day(<<"haiku">>, << >>, None, << >>,
      << Item(Some(<<"9:00">>), Some(<<"sonnet">>), None) >>,
      Diff(<< >>, <<"sonnet">>, <<"haiku">>))

Days == {SentinelDay, EquipmentDay, PoetryDay, NamelessItemDay, NoObjectivesDay}

Handout(name, wellFormed) == [name |-> name, wellFormed |-> wellFormed]
UnitName == <<"U", "n", "i", "t">>
GuideName == <<"G", "u", "i", "d", "e">>
Handouts == {Handout(GuideName, TRUE), Handout(<<"Q", "&", "A">>, TRUE),
             Handout(GuideName, FALSE)}

SeqsUpTo(S, n) == UNION {[1..m -> S] : m \in 0..n}

LessonPlans ==
  {[week |-> <<"3">>, unit |-> UnitName, days |-> d, student_handouts |-> h,
    teacherDataOk |-> t] :
     d \in SeqsUpTo(Days, MaxDays) \ {<< >>},
     h \in SeqsUpTo(Handouts, MaxHandouts), t \in BOOLEAN}

\* a DayPlan as the types declare it: every required field is there
ValidDay(day) ==
  /\ day.objectives # None
  /\ \A n \in 1..Len(day.schedule) :
       /\ day.schedule[n].time # None
       /\ day.schedule[n].name # None
       /\ day.schedule[n].description # None

Layouts ==
  {DocumentXml(18, FALSE, {}), DocumentXml(18, TRUE, {}),
   DocumentXml(18, FALSE, {7, 13}), DocumentXml(14, FALSE, {}),
   DocumentXml(8, FALSE, {1}), DocumentXml(0, FALSE, {})}

Templates == {Archive(x) : x \in Layouts} \cup {NotAnArchive, NoDocumentArchive}

\* ------------------------------------------------------------------- state
VARIABLES
  lessonPlan,      \* the LessonPlanInput of the call
  templateId,      \* the optional template id of the call (None when absent)
  env,             \* the collaborators: bundled asset, metadata lookup, storage
  pc,              \* where the call stands
  templateBuffer,  \* generateAllDocuments: None (null) or Some(bytes)
  i,               \* generateAllDocuments: index of the day loop
  k,               \* generateAllDocuments: index of the student handout loop
  files,           \* generateAllDocuments: the files pushed so far
  calls,           \* every call of a generator made so far, in order
  dayIndex,        \* fillCTETemplate called directly: its dayIndex argument
  outcome,         \* fillCTETemplate called directly: what it returned or threw
  inferred,        \* inferMaterials called directly: None or Some(keys)
  input,           \* a function called on its own: its arguments
  output           \* a function called on its own: None or Some(result)

vars == <<lessonPlan, templateId, env, pc, templateBuffer, i, k, files, calls,
          dayIndex, outcome, inferred, input, output>>

Call(fn, arg, threw) == [fn |-> fn, arg |-> arg, threw |-> threw]

\* the collaborators of one call: the bundled asset is there or not, the
\* metadata lookup and the download succeed or fail
Envs ==
  {[defaultAsset |-> a, lookup |-> l, download |-> "ok",
    stored |-> NoDocumentArchive] :
     a \in {None, Some(Archive(DocumentXml(18, FALSE, {})))},
     l \in {"ok", "error"}}

\* the plans generateAllDocuments is called with
OrchestratorPlans ==
  {p \in LessonPlans :
     /\ \A n \in 1..Len(p.days) :
          p.days[n] \in {SentinelDay, NamelessItemDay, NoObjectivesDay}
     /\ \A n \in 1..Len(p.student_handouts) :
          p.student_handouts[n].name = GuideName}

\* ---------------------------------------------------- generateAllDocuments
Init ==
  /\ lessonPlan \in OrchestratorPlans
  /\ templateId \in {None, Some("tpl-1")}
  /\ env \in Envs
  /\ pc = "load"
  /\ templateBuffer = None
  /\ i = 0
  /\ k = 0
  /\ files = << >>
  /\ calls = << >>
  /\ dayIndex = 0
  /\ outcome = None
  /\ inferred = None
  /\ input = None
  /\ output = None

\* let templateBuffer = null; try { templateBuffer = await loadTemplate(...) }
\* catch { warn }: what templateBuffer holds after the try
loadedBuffer_emptyOnFailure(loaded) ==
  IF loaded.threw THEN Some(NotAnArchive) ELSE loaded.buffer

loadedBuffer(loaded) == IF loaded.threw THEN None ELSE loaded.buffer

\* the catch of the template fill does not touch templateBuffer
bufferAfterFill_dropsTemplate(buffer, fillThrew) ==
  IF fillThrew THEN None ELSE buffer

bufferAfterFill(buffer, fillThrew) == buffer

\* try { files.push(teacher handout) } catch { warn }
pushTeacherHandout_todo(fileList, plan, weekNum, threw) == fileList

pushTeacherHandout(fileList, plan, weekNum, threw) ==
  IF threw THEN fileList
  ELSE Append(fileList,
              GeneratedFile(getTeacherHandoutFilename(plan, weekNum),
                            generateTeacherHandout(plan, weekNum),
                            "teacher_handout"))

\* the student loop goes on after a handout that failed: where the call
\* stands after handout number n (from 0) of count
afterStudent_abortsOnFailure(n, count, threw) ==
  IF threw THEN "done" ELSE IF n + 1 < count THEN "student" ELSE "done"

afterStudent(n, count, threw) == IF n + 1 < count THEN "student" ELSE "done"

\* const useTemplateId = templateId || DEFAULT_TEMPLATE_ID
LoadStep ==
  /\ pc = "load"
  /\ LET useTemplateId == IF templateId = None THEN DEFAULT_TEMPLATE_ID
                          ELSE templateId[1]
         loaded == loadTemplate(env, useTemplateId)
     IN /\ templateBuffer' = loadedBuffer(loaded)
        /\ calls' = Append(calls, Call("loadTemplate", useTemplateId, loaded.threw))
  /\ pc' = "day"
  /\ UNCHANGED <<input, output, lessonPlan, templateId, env, i, k, files, dayIndex, outcome,
                 inferred>>

\* one iteration of the day loop
DayStep ==
  /\ pc = "day"
  /\ i < Len(lessonPlan.days)
  /\ \E filled \in {IF templateBuffer # None
                    THEN fillCTETemplate(templateBuffer[1], lessonPlan, i)
                    ELSE Threw(<< >>)} :
       LET day == lessonPlan.days[i + 1]
           dayNum == i + 1
           weekNum == parseInt(lessonPlan.week)
           weekStr == padStart2(weekNum)
           useTemplate == templateBuffer # None
           fillCall == IF useTemplate
                       THEN << Call("fillCTETemplate", i, filled.threw) >>
                       ELSE << >>
           useScratch == ~useTemplate \/ filled.threw
           scratchThrows == generateLessonPlanDocxThrows(day)
           scratchCall == IF useScratch
                          THEN << Call("generateLessonPlanDocx", i, scratchThrows) >>
                          ELSE << >>
           docBuffer == IF useScratch
                        THEN generateLessonPlanDocx(day, weekNum, dayNum,
                                                    lessonPlan.unit)
                        ELSE [by |-> "fillCTETemplate", buffer |-> filled.buffer[1]]
       IN /\ calls' = calls \o fillCall \o scratchCall
          /\ templateBuffer' = bufferAfterFill(templateBuffer, filled.threw)
          /\ IF useScratch /\ scratchThrows
             THEN /\ pc' = "thrown"
                  /\ UNCHANGED <<files, i>>
             ELSE /\ files' = Append(files,
                       GeneratedFile(lessonPlanFilename(weekStr, dayNum, day),
                                     docBuffer, "lesson_plan"))
                  /\ i' = i + 1
                  /\ pc' = IF i + 1 < Len(lessonPlan.days) THEN "day" ELSE "teacher"
  /\ UNCHANGED <<input, output, lessonPlan, templateId, env, k, dayIndex, outcome, inferred>>

\* the teacher handout, one for the week
TeacherStep ==
  /\ pc = "teacher"
  /\ LET weekNum == parseInt(lessonPlan.week)
         threw == ~lessonPlan.teacherDataOk
     IN /\ calls' = Append(calls, Call("generateTeacherHandout", 0, threw))
        /\ files' = pushTeacherHandout(files, lessonPlan, weekNum, threw)
  /\ pc' = IF Len(lessonPlan.student_handouts) > 0 THEN "student" ELSE "done"
  /\ UNCHANGED <<input, output, lessonPlan, templateId, env, templateBuffer, i, k, dayIndex,
                 outcome, inferred>>

\* one iteration of the student handout loop
StudentStep ==
  /\ pc = "student"
  /\ k < Len(lessonPlan.student_handouts)
  /\ LET handout == lessonPlan.student_handouts[k + 1]
         weekNum == parseInt(lessonPlan.week)
         threw == ~handout.wellFormed
     IN /\ calls' = Append(calls, Call("generateStudentHandout", k, threw))
        /\ files' = IF threw THEN files
                    ELSE Append(files,
                           GeneratedFile(getStudentHandoutFilename(handout),
                                         generateStudentHandout(handout, weekNum),
                                         "student_handout"))
        /\ pc' = afterStudent(k, Len(lessonPlan.student_handouts), threw)
  /\ k' = k + 1
  /\ UNCHANGED <<input, output, lessonPlan, templateId, env, templateBuffer, i, dayIndex,
                 outcome, inferred>>

Next == LoadStep \/ DayStep \/ TeacherStep \/ StudentStep

Spec == Init /\ [][Next]_vars

\* ------------------------------------- fillCTETemplate, inferMaterials alone
FillInit ==
  /\ lessonPlan \in {p \in LessonPlans :
                       p.student_handouts = << >> /\ p.teacherDataOk}
  /\ templateId = None
  /\ env = [defaultAsset |-> None, lookup |-> "ok", download |-> "ok",
            stored |-> NoDocumentArchive]
  /\ pc = "call"
  /\ templateBuffer \in {Some(t) : t \in Templates}
  /\ i = 0
  /\ k = 0
  /\ files = << >>
  /\ calls = << >>
  /\ dayIndex \in 0..MaxDays
  /\ outcome = None
  /\ inferred = None
  /\ input = None
  /\ output = None

\* outcome = fillCTETemplate(templateBuffer, lessonPlan, dayIndex)
CallFillCTETemplate ==
  /\ pc = "call"
  /\ outcome = None
  /\ outcome' = Some(fillCTETemplate(templateBuffer[1], lessonPlan, dayIndex))
  /\ UNCHANGED <<input, output, lessonPlan, templateId, env, pc, templateBuffer, i, k, files,
                 calls, dayIndex, inferred>>

\* inferred = inferMaterials(lessonPlan.days[dayIndex])
CallInferMaterials ==
  /\ pc = "call"
  /\ inferred = None
  /\ dayIndex < Len(lessonPlan.days)
  /\ inferred' = Some(inferMaterials(lessonPlan.days[dayIndex + 1]))
  /\ UNCHANGED <<input, output, lessonPlan, templateId, env, pc, templateBuffer, i, k, files,
                 calls, dayIndex, outcome>>

FillNext == CallFillCTETemplate \/ CallInferMaterials

FillSpec == FillInit /\ [][FillNext]_vars

\* =================================================================== claims
CountOfType(t) == Cardinality({n \in 1..Len(files) : files[n].type = t})
CallsOf(fn) == {n \in 1..Len(calls) : calls[n].fn = fn}
NumDays == Len(lessonPlan.days)

\* every day has the fields the scratch generator dereferences
ScratchAccepts == \A n \in 1..NumDays : ~generateLessonPlanDocxThrows(lessonPlan.days[n])

\* a LessonPlanInput as the types declare it, with handout data the handout
\* generators accept
ValidInput ==
  /\ \A n \in 1..NumDays : ValidDay(lessonPlan.days[n])
  /\ lessonPlan.teacherDataOk
  /\ \A n \in 1..Len(lessonPlan.student_handouts) :
       lessonPlan.student_handouts[n].wellFormed

LoaderThrew == Len(calls) >= 1 /\ calls[1].fn = "loadTemplate" /\ calls[1].threw

\* C2: when loadTemplate throws, generateAllDocuments never calls the template
\* filler, every lesson_plan file is the scratch generator's document of its
\* day, the call returns one lesson_plan file per day, and it does not throw
\* (for days the scratch generator accepts).
C2_LoadFailureFallsBackToScratch ==
  LoaderThrew =>
    /\ CallsOf("fillCTETemplate") = {}
    /\ \A n \in 1..Len(files) :
         files[n].type = "lesson_plan" =>
           files[n].content = generateLessonPlanDocx(lessonPlan.days[n],
                                parseInt(lessonPlan.week), n, lessonPlan.unit)
    /\ pc = "done" => CountOfType("lesson_plan") = NumDays
    /\ ScratchAccepts => pc # "thrown"

C2_Witness ==
  /\ LoaderThrew
  /\ pc = "done"
  /\ NumDays >= 2
  /\ CountOfType("lesson_plan") = NumDays

FillCallsFor(d) == {n \in CallsOf("fillCTETemplate") : calls[n].arg = d}
ScratchCallsFor(d) == {n \in CallsOf("generateLessonPlanDocx") : calls[n].arg = d}
\* the day loop has been through day d (days count from 0)
DayAttempted(d) == d < i \/ (pc = "thrown" /\ d = i)
TemplateWasLoaded == Len(calls) >= 1 /\ calls[1].fn = "loadTemplate" /\ ~calls[1].threw

RECURSIVE WellFormedHandouts(_)
WellFormedHandouts(list) ==
  IF list = << >> THEN << >>
  ELSE (IF list[1].wellFormed THEN << list[1] >> ELSE << >>)
       \o WellFormedHandouts(Tail(list))

\* C4: a handout generator that throws never makes generateAllDocuments throw
\* (the call can only throw inside the day loop); once the day loop is over the
\* lesson_plan files of all days stay in the list, and the list returned holds
\* the teacher handout unless its generation threw, followed by the student
\* handout of every entry whose generation did not throw, in input order.
C4_HandoutFailuresAreSkipped ==
  /\ pc = "thrown" => i < NumDays /\ calls[Len(calls)].fn = "generateLessonPlanDocx"
  /\ pc \in {"teacher", "student", "done"} =>
       /\ Len(files) >= NumDays
       /\ \A n \in 1..NumDays : files[n].type = "lesson_plan"
  /\ pc = "done" =>
       LET rest == SubSeq(files, NumDays + 1, Len(files))
           teacher == IF lessonPlan.teacherDataOk
                      THEN << GeneratedFile(
                                getTeacherHandoutFilename(lessonPlan,
                                                          parseInt(lessonPlan.week)),
                                generateTeacherHandout(lessonPlan,
                                                       parseInt(lessonPlan.week)),
                                "teacher_handout") >>
                      ELSE << >>
           good == WellFormedHandouts(lessonPlan.student_handouts)
       IN rest = teacher \o
                 [n \in 1..Len(good) |->
                    GeneratedFile(getStudentHandoutFilename(good[n]),
                                  generateStudentHandout(good[n],
                                                         parseInt(lessonPlan.week)),
                                  "student_handout")]

\* the teacher handout and the first student handout threw, the second student
\* handout is in the result
C4_Witness ==
  /\ pc = "done"
  /\ ~lessonPlan.teacherDataOk
  /\ Len(lessonPlan.student_handouts) = 2
  /\ ~lessonPlan.student_handouts[1].wellFormed
  /\ lessonPlan.student_handouts[2].wellFormed
  /\ CountOfType("student_handout") = 1
  /\ CountOfType("lesson_plan") = NumDays

\* ----------------------------------------------- claims about the filler
FillCalled == outcome # None
FillReturned == outcome # None /\ ~outcome[1].threw
InRange == dayIndex < NumDays
TheDay == lessonPlan.days[dayIndex + 1]
HasDocument(buffer) == buffer.isZip /\ DOCUMENT_XML \in DOMAIN buffer.parts
InXml == templateBuffer[1].parts[DOCUMENT_XML]
OutXml == outcome[1].buffer[1].parts[DOCUMENT_XML]

\* the character data of a piece of XML as a reader extracts it
UnescapeAtom(a) ==
  CASE a = "Q&amp;A" -> "Q&A"
    [] a = "&lt;b&gt;" -> "<b>"
    [] OTHER -> a
ExtractText(xml) ==
  LET data == SelectSeq(xml, IsCharData)
  IN [n \in 1..Len(data) |-> UnescapeAtom(data[n])]
Atoms(text) == {text[n] : n \in 1..Len(text)}

\* C5: fillCTETemplate called with a day index >= lessonPlan.days.length throws,
\* whatever the template bytes; the message names the index and the number of
\* days; no document is produced.
C5_DayIndexOutOfRange ==
  (FillCalled /\ dayIndex >= NumDays) =>
    /\ outcome[1].threw
    /\ outcome[1].message =
         <<"Day index ", ToString(dayIndex), " out of range. Lesson plan has ",
           ToString(NumDays), " days.">>
    /\ outcome[1].buffer = << >>

C5_Witness ==
  /\ FillCalled
  /\ dayIndex > NumDays
  /\ HasDocument(templateBuffer[1])
  /\ outcome[1].threw

\* C6 (as claimed): the filler throws if and only if the archive has no
\* word/document.xml part or the day index is outside the days; for bytes that
\* are no archive and for days with missing fields it returns a document.
C6_Original_ThrowsInTwoSituationsOnly ==
  FillCalled =>
    (outcome[1].threw <=>
       \/ dayIndex >= NumDays
       \/ (templateBuffer[1].isZip /\ DOCUMENT_XML \notin DOMAIN templateBuffer[1].parts))

\* the (row, cell) positions the filler addresses, counted from 0
AddressedCells ==
  {<<1, 0>>, <<1, 1>>, <<2, 0>>, <<2, 1>>, <<5, 0>>, <<7, 0>>, <<7, 1>>, <<9, 0>>,
   <<11, 0>>, <<13, 0>>, <<13, 1>>, <<15, 0>>, <<17, 0>>}

\* the same day filled into the complete 18-row layout
CompleteFillXml ==
  fillCTETemplate(Archive(DocumentXml(18, FALSE, {})), lessonPlan,
                  dayIndex).buffer[1].parts[DOCUMENT_XML]

\* C7: for a template that lacks rows or cells of the layout, and a day whose
\* schedule entries have a name, the filler returns without throwing; every
\* addressed cell the template does have holds exactly what it holds after
\* filling the complete template, and a missing one is skipped.
C7_MissingCellsAreSkipped ==
  (FillCalled /\ InRange /\ HasDocument(templateBuffer[1])
     /\ ~inferMethodsThrows(TheDay)) =>
    /\ ~outcome[1].threw
    /\ LET cellsIn == getTableCells(InXml)
           cellsOut == getTableCells(OutXml)
           cellsComplete == getTableCells(CompleteFillXml)
       IN \A a \in AddressedCells :
            IF HasCell(cellsIn, a[1], a[2])
            THEN /\ HasCell(cellsOut, a[1], a[2])
                 /\ CellOf(cellsOut, a[1], a[2]) = CellOf(cellsComplete, a[1], a[2])
            ELSE ~HasCell(cellsOut, a[1], a[2])

\* rows 7 and 13 have one cell only: the materials and the differentiation are
\* skipped, the curriculum checkboxes of row 15 are marked all the same
C7_Witness ==
  /\ FillReturned
  /\ InXml = DocumentXml(18, FALSE, {7, 13})
  /\ TheDay = EquipmentDay
  /\ ~HasCell(getTableCells(OutXml), 7, 1)
  /\ CellOf(getTableCells(OutXml), 15, 0) # CellOf(getTableCells(InXml), 15, 0)

CompleteLayout(xml) ==
  xml \in {DocumentXml(18, FALSE, {}), DocumentXml(18, TRUE, {})}

SentinelFill ==
  FillReturned /\ InRange /\ TheDay = SentinelDay /\ CompleteLayout(InXml)

\* the text of the cell at (row, cell) of the filled document
OutCellText(rowIndex, cellIndex) ==
  ExtractText(CellOf(getTableCells(OutXml), rowIndex, cellIndex))

\* the sentinel occurs in the cell at (row, cell) and in no other cell
OnlyInCell(sentinel, rowIndex, cellIndex) ==
  LET cellsOut == getTableCells(OutXml)
  IN \A r \in 1..Len(cellsOut) : \A c \in 1..Len(cellsOut[r]) :
       (sentinel \in Atoms(ExtractText(cellsOut[r][c])))
         <=> (r = rowIndex + 1 /\ c = cellIndex + 1)

C9_FrameOfFill ==
  FillReturned =>
    LET before == templateBuffer[1].parts
        after == outcome[1].buffer[1].parts
        cellsIn == getTableCells(InXml)
        cellsOut == getTableCells(OutXml)
    IN /\ outcome[1].buffer[1].isZip
       /\ DOMAIN after = DOMAIN before
       /\ \A n \in DOMAIN before \ {DOCUMENT_XML} : after[n] = before[n]
       /\ Len(cellsOut) = Len(cellsIn)
       /\ \A r \in 1..Len(cellsIn) :
            /\ Len(cellsOut[r]) = Len(cellsIn[r])
            /\ \A c \in 1..Len(cellsIn[r]) :
                 <<r - 1, c - 1>> \notin AddressedCells =>
                   cellsOut[r][c] = cellsIn[r][c]

\* a layout with cells that are not addressed, some of them in rows that are
C9_Witness ==
  /\ FillReturned
  /\ InXml = DocumentXml(18, TRUE, {})
  /\ OutXml # InXml
  /\ CellOf(getTableCells(OutXml), 13, 1) # CellOf(getTableCells(InXml), 13, 1)
  /\ CellOf(getTableCells(OutXml), 13, 2) = CellOf(getTableCells(InXml), 13, 2)

\* the alternatives of the nine rules of inferMaterials
MaterialsKeywords ==
  {"presentation", "present", "show", "display", "screen", "projector", "slides",
   "powerpoint", "computer", "premiere", "photoshop", "editing", "software",
   "digital", "laptop", "video", "watch", "film", "movie", "clip", "youtube",
   "dvd", "lab", "studio", "hands-on", "practice", "filming", "shoot", "record",
   "audio", "sound", "music", "listen", "speaker", "playback", "handout",
   "worksheet", "guide", "reference", "template", "storyboard", "script",
   "camera", "tripod", "lighting", "light", "microphone", "mic", "equipment",
   "gear", "journal", "notebook", "notes", "reflection", "poster", "chart",
   "diagram", "visual aid"}

\* C10: when the text inferMaterials reads contains "tripod" and "lighting", the
\* keys it returns include other_equipment; when that text contains none of the
\* keywords of its rules, it returns no key.
C10_InferMaterials ==
  (inferred # None /\ InRange) =>
    LET text == materialsText(TheDay)
        keys == inferred[1]
    IN /\ (Test({"tripod"}, text) /\ Test({"lighting"}, text)) =>
            \E n \in 1..Len(keys) : keys[n] = "other_equipment"
       /\ ~Test(MaterialsKeywords, text) => keys = << >>

C10_Witness ==
  /\ inferred # None
  /\ InRange
  /\ TheDay = EquipmentDay
  /\ Test({"tripod"}, materialsText(TheDay))
  /\ Test({"lighting"}, materialsText(TheDay))
  /\ \E n \in 1..Len(inferred[1]) : inferred[1][n] = "other_equipment"

\* ======================================================= handout components
MaxItems == 5

\* the variables of generateAllDocuments and of the filler, at rest while a
\* function is called on its own
orchestratorVars ==
  <<lessonPlan, templateId, env, pc, templateBuffer, i, k, files, calls,
    dayIndex, outcome, inferred>>

AtRest ==
  /\ lessonPlan = [week |-> <<"3">>, unit |-> UnitName, days |-> <<PoetryDay>>,
                   student_handouts |-> << >>, teacherDataOk |-> TRUE]
  /\ templateId = None
  /\ env = [defaultAsset |-> None, lookup |-> "ok", download |-> "ok",
            stored |-> NoDocumentArchive]
  /\ pc = "call"
  /\ templateBuffer = None
  /\ i = 0
  /\ k = 0
  /\ files = << >>
  /\ calls = << >>
  /\ dayIndex = 0
  /\ outcome = None
  /\ inferred = None

\* COLORS of handout-styles.ts
LIGHT_BLUE == "D6E3F8"
LIGHT_GRAY == "F5F5F5"
WHITE == "FFFFFF"

\* new TableCell({ ..., borders: BORDERS.none, children: [new Paragraph({})] })
placeholderCell == [borders |-> "none", fill |-> None, children |-> << << >> >>]

\* the card of items[i + j]; first is the i of the code, j counts from 0
cardCell(items, first, j) ==
  [borders |-> "thin",
   fill |-> Some(IF (first \div 2) % 2 = 1 THEN LIGHT_GRAY ELSE LIGHT_BLUE),
   children |-> << <<items[first + j + 1].term>>, <<items[first + j + 1].definition>> >>]

\* the else branch pushes no cell
cardRowCells_noPlaceholder(items, first) ==
  [j \in 1..(IF first + 1 < Len(items) THEN 2 ELSE 1) |-> cardCell(items, first, j - 1)]

\* for (let j = 0; j < 2; j++) { if (i + j < items.length) card else placeholder }
cardRowCells(items, first) ==
  [j \in 1..2 |-> IF first + (j - 1) < Len(items) THEN cardCell(items, first, j - 1)
                  ELSE placeholderCell]

RECURSIVE cardRows(_, _)
\* for (let i = 0; i < items.length; i += 2) { ...; rows.push(row) }, from i on
cardRows(items, first) ==
  IF first < Len(items) THEN << cardRowCells(items, first) >> \o cardRows(items, first + 2)
  ELSE << >>

cardGrid(items) == [rows |-> cardRows(items, 0), columns |-> 2]

checklistCell(items, first, j) ==
  [borders |-> "thin",
   fill |-> Some(IF (first \div 2) % 2 = 1 THEN LIGHT_GRAY ELSE WHITE),
   children |-> << <<"[ ] ", items[first + j + 1]>> >>]

checklistRowCells(items, first) ==
  [j \in 1..2 |-> IF first + (j - 1) < Len(items) THEN checklistCell(items, first, j - 1)
                  ELSE placeholderCell]

RECURSIVE checklistRows(_, _)
checklistRows(items, first) ==
  IF first < Len(items)
  THEN << checklistRowCells(items, first) >> \o checklistRows(items, first + 2)
  ELSE << >>

checklistGrid(items) == [rows |-> checklistRows(items, 0), columns |-> 2]

\* the items of the grids: a list of terms; the card of a term has a definition
Terms == {"lens", "boom"}
VocabularyCard(term) == [term |-> term, definition |-> "def"]

GridInit ==
  /\ AtRest
  /\ input \in {Some(l) : l \in SeqsUpTo(Terms, MaxItems)}
  /\ output = None

\* output = cardGrid(items) for the cards of the terms
CallCardGrid ==
  /\ output = None
  /\ output' = Some([fn |-> "cardGrid",
                     table |-> cardGrid([n \in 1..Len(input[1]) |->
                                           VocabularyCard(input[1][n])])])
  /\ UNCHANGED <<input, orchestratorVars>>

\* output = checklistGrid(items)
CallChecklistGrid ==
  /\ output = None
  /\ output' = Some([fn |-> "checklistGrid", table |-> checklistGrid(input[1])])
  /\ UNCHANGED <<input, orchestratorVars>>

GridNext == CallCardGrid \/ CallChecklistGrid

GridSpec == GridInit /\ [][GridNext]_vars

\* the text a populated cell shows for the item
CellShows(cell, fn, term) ==
  /\ cell.borders = "thin"
  /\ IF fn = "cardGrid" THEN cell.children = << <<term>>, <<"def">> >>
     ELSE cell.children = << <<"[ ] ", term>> >>

\* C11: for a list of n >= 1 items, cardGrid and checklistGrid produce exactly
\* ceil(n/2) rows of exactly 2 cells; row r (from 0) holds item 2r and then item
\* 2r+1; when n is odd, the last row is one populated cell followed by one
\* empty placeholder cell.
C11_GridShape ==
  (output # None /\ Len(input[1]) >= 1) =>
    LET items == input[1]
        n == Len(items)
        rows == output[1].table.rows
    IN /\ Len(rows) = (n + 1) \div 2
       /\ \A r \in 1..Len(rows) :
            /\ Len(rows[r]) = 2
            /\ CellShows(rows[r][1], output[1].fn, items[2 * (r - 1) + 1])
            /\ IF 2 * (r - 1) + 2 <= n
               THEN CellShows(rows[r][2], output[1].fn, items[2 * (r - 1) + 2])
               ELSE /\ r = Len(rows)
                    /\ n % 2 = 1
                    /\ rows[r][2] = placeholderCell

C11_Witness ==
  /\ output # None
  /\ Len(input[1]) = 3
  /\ Len(output[1].table.rows) = 2
  /\ output[1].table.rows[2][2] = placeholderCell

\* ================================================================ file names
MaxRuns == 3

\* a name written as runs of one character, each 1 or 13 characters long
RunChars == {"a", "7", " ", "-", "&"}
RunLengths == {1, 13}
NameRuns == [c : RunChars, n : RunLengths]

\* the characters of a list of runs
Expand(runs) ==
  Flatten([r \in 1..Len(runs) |-> [m \in 1..runs[r].n |-> runs[r].c]])

HandoutNames == {Expand(runs) : runs \in SeqsUpTo(NameRuns, MaxRuns)}

NameInit ==
  /\ AtRest
  /\ input \in {Some(name) : name \in HandoutNames}
  /\ output = None

\* output = getStudentHandoutFilename({ name: input })
CallGetStudentHandoutFilename ==
  /\ output = None
  /\ output' = Some([fn |-> "getStudentHandoutFilename",
                     name |-> getStudentHandoutFilename(Handout(input[1], TRUE))])
  /\ UNCHANGED <<input, orchestratorVars>>

\* output = getTeacherHandoutFilename({ unit: input }, 3)
CallGetTeacherHandoutFilename ==
  /\ output = None
  /\ output' = Some([fn |-> "getTeacherHandoutFilename",
                     name |-> getTeacherHandoutFilename([unit |-> input[1]], 3)])
  /\ UNCHANGED <<input, orchestratorVars>>

NameNext == CallGetStudentHandoutFilename \/ CallGetTeacherHandoutFilename

NameSpec == NameInit /\ [][NameNext]_vars

StudentNameReturned ==
  output # None /\ output[1].fn = "getStudentHandoutFilename"

\* the part of the returned name before the "_StudentHandout.docx" ending
StudentSlug == SubSeq(output[1].name, 1, Len(output[1].name) - 1)

\* C12 (as claimed): getStudentHandoutFilename returns <slug>_StudentHandout.docx
\* where the slug holds only ASCII letters, digits and underscores and is at
\* most 25 characters long.
C12_Original_SlugOfLettersDigitsUnderscores ==
  StudentNameReturned =>
    /\ output[1].name[Len(output[1].name)] = "_StudentHandout.docx"
    /\ \A m \in 1..Len(StudentSlug) : StudentSlug[m] \in AlphaNum \cup {"_"}
    /\ Len(StudentSlug) <= 25

\* C12 (amended): getStudentHandoutFilename returns <slug>_StudentHandout.docx
\* where the slug holds only ASCII letters, digits, underscores and hyphens and
\* is at most 25 characters long; a hyphen of the name is kept.
C12_SlugOfLettersDigitsUnderscoresHyphens ==
  StudentNameReturned =>
    /\ output[1].name[Len(output[1].name)] = "_StudentHandout.docx"
    /\ \A m \in 1..Len(StudentSlug) : StudentSlug[m] \in AlphaNum \cup {"_", "-"}
    /\ Len(StudentSlug) <= 25
    /\ (\E m \in 1..Len(input[1]) : m <= 25 /\ input[1][m] = "-"
          /\ \A q \in 1..m : input[1][q] \notin Whitespace \cup {"&"})
         => \E m \in 1..Len(StudentSlug) : StudentSlug[m] = "-"

\* a name of 27 characters with hyphens and a blank, cut to 25
C12_Witness ==
  /\ StudentNameReturned
  /\ Len(input[1]) = 27
  /\ \E m \in 1..Len(input[1]) : input[1][m] = " "
  /\ \E m \in 1..Len(StudentSlug) : StudentSlug[m] = "-"
  /\ Len(StudentSlug) = 25

\* ------------------------------------------- the names of the generated files
\* a day of interviews: its topic has a character that is no letter or digit
InterviewDay ==
  Day(<<"Q&A">>, <<"haiku">>, Some(<< <<"sonnet">> >>), << <<"tripod">> >>,
      << Item(Some(<<"9:00">>), Some(<<"Lab">>), Some(<<"haiku">>)) >>,
      Diff(<<"haiku">>, << >>, << >>))

\* week and unit of a plan
PlanHeaders ==
  {[week |-> <<"3">>, unit |-> UnitName],
   [week |-> <<"12">>, unit |-> <<"A", "&", " ", "V">>]}

NamingPlans ==
  {[week |-> h.week, unit |-> h.unit, days |-> d, student_handouts |-> s,
    teacherDataOk |-> TRUE] :
     h \in PlanHeaders,
     d \in SeqsUpTo({SentinelDay, InterviewDay}, MaxDays) \ {<< >>},
     s \in SeqsUpTo({Handout(GuideName, TRUE)}, MaxHandouts)}

\* generateAllDocuments called with well-formed plans, the bundled template
\* present or missing
NamingInit ==
  /\ lessonPlan \in NamingPlans
  /\ templateId = None
  /\ env \in {e \in Envs : e.lookup = "ok"}
  /\ pc = "load"
  /\ templateBuffer = None
  /\ i = 0
  /\ k = 0
  /\ files = << >>
  /\ calls = << >>
  /\ dayIndex = 0
  /\ outcome = None
  /\ inferred = None
  /\ input = None
  /\ output = None

NamingSpec == NamingInit /\ [][Next]_vars

\* the week, zero-padded to two digits, as the claim writes it
ExpectedNN ==
  CASE lessonPlan.week = <<"3">> -> <<"0", "3">>
    [] lessonPlan.week = <<"12">> -> <<"12">>

\* the week, not padded
ExpectedW ==
  CASE lessonPlan.week = <<"3">> -> "3"
    [] lessonPlan.week = <<"12">> -> "12"

\* the topic with every character that is no letter or digit replaced by "_"
ExpectedTopicSlug(topic) ==
  CASE topic = <<"Q&A">> -> <<"Q_A">>
    [] topic = <<"S_TOPIC">> -> <<"S_TOPIC">>

\* C13: the file of the day at 0-based position d of week w is named
\* Week<NN>_Day<d+1>_<TopicSlug>.docx, NN being w padded to two digits and
\* TopicSlug the topic with every non-alphanumeric character replaced by "_";
\* the daily files come first, in day order; the teacher handout is named
\* Week<w>_<UnitSlug>_TeacherHandout.docx with w not padded.
C13_FileNames ==
  /\ \A d \in 1..Len(files) :
       IF d <= NumDays
       THEN /\ files[d].type = "lesson_plan"
            /\ files[d].name =
                 <<"Week">> \o ExpectedNN \o <<"_Day", ToString(d), "_">>
                   \o ExpectedTopicSlug(lessonPlan.days[d].topic) \o <<".docx">>
       ELSE files[d].type # "lesson_plan"
  /\ \A d \in 1..Len(files) :
       files[d].type = "teacher_handout" =>
         LET name == files[d].name
         IN /\ SubSeq(name, 1, 3) = <<"Week", ExpectedW, "_">>
            /\ name[Len(name)] = "_TeacherHandout.docx"
            /\ \A m \in 4..(Len(name) - 1) : IsSlugChar(name[m])

C13_Witness ==
  /\ pc = "done"
  /\ lessonPlan.week = <<"3">>
  /\ NumDays = 2
  /\ lessonPlan.days[2] = InterviewDay
  /\ Len(files) >= 3
  /\ files[2].name = <<"Week", "0", "3", "_Day", "2", "_", "Q_A", ".docx">>
  /\ files[3].name = <<"Week", "3", "_", "U", "n", "i", "t", "_TeacherHandout.docx">>

\* ============================================================= loadTemplate
\* the template ids of the calls
TemplateIds == {DEFAULT_TEMPLATE_ID, "tpl-1", ""}

\* every behaviour of the metadata lookup, of the download and of the asset
LoaderEnvs ==
  [defaultAsset : {None, Some(Archive(DocumentXml(18, FALSE, {})))},
   lookup : {"ok", "error", "no_file_path", "throws"},
   download : {"ok", "error", "no_data", "throws"},
   stored : {NoDocumentArchive, Archive(DocumentXml(14, FALSE, {}))}]

LoadInit ==
  /\ lessonPlan = [week |-> <<"3">>, unit |-> UnitName, days |-> <<PoetryDay>>,
                   student_handouts |-> << >>, teacherDataOk |-> TRUE]
  /\ templateId \in {Some(t) : t \in TemplateIds}
  /\ env \in LoaderEnvs
  /\ pc = "call"
  /\ templateBuffer = None
  /\ i = 0
  /\ k = 0
  /\ files = << >>
  /\ calls = << >>
  /\ dayIndex = 0
  /\ outcome = None
  /\ inferred = None
  /\ input = None
  /\ output = None

\* output = loadTemplate(supabase, templateId)
CallLoadTemplate ==
  /\ output = None
  /\ output' = Some(loadTemplate(env, templateId[1]))
  /\ UNCHANGED <<input, orchestratorVars>>

LoadNext == CallLoadTemplate

LoadSpec == LoadInit /\ [][LoadNext]_vars

\* the lookup and the download both succeed
StoredAvailable == env.lookup = "ok" /\ env.download = "ok"

\* C14: with the reserved default id loadTemplate returns the bundled bytes;
\* with any other id it returns the stored bytes when lookup and download
\* succeed, and the bundled bytes when the lookup fails, the record has no
\* file path, the download fails or a call throws. A failure of the lookup or
\* of the download is never what the caller receives: the only error
\* loadTemplate raises is the one of a bundled template that cannot be read.
C14_LoadTemplate ==
  output # None =>
    /\ IF templateId[1] # DEFAULT_TEMPLATE_ID /\ StoredAvailable
       THEN output[1] = Returned(env.stored)
       ELSE IF env.defaultAsset # None
       THEN output[1] = Returned(env.defaultAsset[1])
       ELSE output[1].threw
    /\ output[1].threw =>
         /\ env.defaultAsset = None
         /\ output[1].message = <<"Default template not found">>

C14_Witness ==
  /\ output # None
  /\ templateId[1] = "tpl-1"
  /\ env.lookup = "ok"
  /\ env.download = "error"
  /\ env.defaultAsset # None
  /\ output[1] = Returned(env.defaultAsset[1])
  /\ env.stored # env.defaultAsset[1]


\* ---------------------------------------------------------- teacher handout
\* an optional field of an object: a missing field reads as undefined, which
\* the model writes << >> like the empty string and the empty list
Field(obj, key) == IF key \in DOMAIN obj THEN obj[key] ELSE << >>

\* the object without the fields keys
Without(obj, keys) == [f \in DOMAIN obj \ keys |-> obj[f]]

\* a child of the document: what it is and the texts it shows, in order
Block(what, content) == [what |-> what, content |-> content]

blankParagraph == Block("blank", << >>)
pageBreak == Block("pageBreak", << >>)

createSectionHeader(text, level) ==
  Block("sectionHeader", << <<text>>, <<ToString(level)>> >>)

\* value || 'N/A'
OrNA(value) == IF value # << >> THEN value ELSE <<"N/A">>

dayNames == <<"Monday", "Tuesday", "Wednesday", "Thursday", "Friday">>

headerBanner(plan, weekNumber) ==
  << Block("headerTable",
           << <<"WEEK", ToString(weekNumber)>>, Field(plan, "unit"),
              <<"Media Foundations", "Teacher Guide">> >>),
     blankParagraph >>

weekOverviewSection(plan) ==
  IF Field(plan, "week_overview") # << >> \/ Field(plan, "week_focus") # << >>
  THEN << createSectionHeader("Week Overview", 1),
          Block("overviewTable",
                filterBoolean(<<Field(plan, "week_focus"),
                                Field(plan, "week_overview")>>)),
          blankParagraph >>
  ELSE << >>

weekObjectivesSection(plan) ==
  IF Len(Field(plan, "week_objectives")) > 0
  THEN << createSectionHeader("Weekly Learning Objectives", 1),
          Block("objTable", plan.week_objectives), blankParagraph >>
  ELSE << >>

weekMaterialsSection(plan) ==
  IF Len(Field(plan, "week_materials")) > 0
  THEN << createSectionHeader("Materials Needed for the Week", 1),
          Block("matTable", plan.week_materials), blankParagraph >>
  ELSE << >>

assessmentSection(plan) ==
  IF \/ Field(plan, "formative_assessment") # << >>
     \/ Field(plan, "summative_assessment") # << >>
     \/ Field(plan, "weekly_deliverable") # << >>
  THEN << createSectionHeader("Assessment Overview", 1),
          Block("assessTable",
                << <<"Formative">>, OrNA(Field(plan, "formative_assessment")),
                   <<"Summative">>, OrNA(Field(plan, "summative_assessment")),
                   <<"Deliverable">>,
                   OrNA(Field(plan, "weekly_deliverable")) >>),
          blankParagraph >>
  ELSE << >>

\* day.day_label || dayNames[i] || `Day ${i + 1}`, n = i + 1
dayName(day, n) ==
  IF Field(day, "day_label") # << >> THEN day.day_label
  ELSE IF n <= Len(dayNames) THEN <<dayNames[n]>>
  ELSE <<"Day", ToString(n)>>

dayHeaderTable(day, n) ==
  Block("dayHeaderTable",
        << <<"DAY", ToString(n)>>, dayName(day, n),
           IF Field(day, "topic") # << >> THEN day.topic ELSE <<"Untitled">> >>)

\* the objectives of a day: missing, or a list
objectivesOf(day) ==
  IF Field(day, "objectives") = None THEN << >> ELSE day.objectives[1]

dayObjectivesSection(day) ==
  IF Len(objectivesOf(day)) > 0
  THEN << createSectionHeader("Learning Objectives", 2),
          Block("objBox", objectivesOf(day)) >>
  ELSE << >>

dayMaterialsSection(day) ==
  IF Len(Field(day, "day_materials")) > 0
  THEN << createSectionHeader("Materials", 2),
          Block("materialsParagraph", day.day_materials) >>
  ELSE << >>

\* the cells of the row of a schedule item: time, name, description
scheduleRow(item) ==
  OrEmpty(item.time) \o OrEmpty(item.name) \o OrEmpty(item.description)

dayScheduleSection(day) ==
  IF Len(Field(day, "schedule")) > 0
  THEN << createSectionHeader("Schedule", 2),
          Block("scheduleTable",
                << <<"Time">>, <<"Activity">>, <<"Description">> >>
                \o [m \in 1..Len(day.schedule) |->
                      scheduleRow(day.schedule[m])]) >>
  ELSE << >>

dayVocabularySection(day) ==
  IF Len(Field(day, "vocabulary")) > 0
  THEN << createSectionHeader("Vocabulary", 2),
          Block("vocabTable", day.vocabulary) >>
  ELSE << >>

\* if (day.differentiation): the section is there for every differentiation
\* object, its slots empty or not
dayDifferentiationSection(day) ==
  IF "differentiation" \in DOMAIN day
  THEN << createSectionHeader("Differentiation", 2),
          Block("diffTable",
                << <<"Advanced Learners">>,
                   OrNA(day.differentiation.Advanced),
                   <<"Struggling Learners">>,
                   OrNA(day.differentiation.Struggling),
                   <<"ELL Students">>, OrNA(day.differentiation.ELL) >>) >>
  ELSE << >>

dayTeacherNotesSection(day) ==
  IF Field(day, "teacher_notes") # << >>
  THEN << createSectionHeader("Teacher Notes", 2),
          Block("notesTable", <<day.teacher_notes>>) >>
  ELSE << >>

\* one pass of the loop over the days, n = i + 1
dayBlocks_breakBeforeEveryDay(day, n) ==
  <<pageBreak>>
  \o << dayHeaderTable(day, n), blankParagraph >>
  \o dayObjectivesSection(day) \o dayMaterialsSection(day)
  \o dayScheduleSection(day) \o dayVocabularySection(day)
  \o dayDifferentiationSection(day) \o dayTeacherNotesSection(day)
  \o <<blankParagraph>>
dayBlocks(day, n) ==
  (IF n > 1 THEN <<pageBreak>> ELSE << >>)
  \o << dayHeaderTable(day, n), blankParagraph >>
  \o dayObjectivesSection(day) \o dayMaterialsSection(day)
  \o dayScheduleSection(day) \o dayVocabularySection(day)
  \o dayDifferentiationSection(day) \o dayTeacherNotesSection(day)
  \o <<blankParagraph>>

weekNotesSection(plan) ==
  IF Len(Field(plan, "teacher_notes")) > 0
  THEN << pageBreak, createSectionHeader("Weekly Teacher Notes", 1),
          Block("weekNotesTable", plan.teacher_notes) >>
  ELSE << >>

\* the children of the one section of the document
teacherHandoutChildren(plan, weekNumber) ==
  LET days == Field(plan, "days")
  IN headerBanner(plan, weekNumber)
     \o weekOverviewSection(plan) \o weekObjectivesSection(plan)
     \o weekMaterialsSection(plan) \o assessmentSection(plan)
     \o Flatten([n \in 1..Len(days) |-> dayBlocks(days[n], n)])
     \o weekNotesSection(plan)

\* an entry of days that is null: reading day.day_label throws a TypeError
NullDay == [null |-> TRUE]
IsNull(day) == "null" \in DOMAIN day

\* the call as a whole: the children of the document, or the TypeError
generateTeacherHandoutBlocks(plan, weekNumber) ==
  IF \E n \in 1..Len(Field(plan, "days")) : IsNull(plan.days[n])
  THEN [fn |-> "generateTeacherHandout", threw |-> TRUE, children |-> << >>]
  ELSE [fn |-> "generateTeacherHandout", threw |-> FALSE,
        children |-> teacherHandoutChildren(plan, weekNumber)]

\* plans given to generateTeacherHandout: every optional field of the week
\* and of a day is there, missing or empty
MaxNotes == 1

WeekFields ==
  [week_focus |-> <<"S_FOCUS">>, week_overview |-> <<"S_WOVW">>,
   week_objectives |-> << <<"S_WOBJ">> >>,
   week_materials |-> << <<"S_WMAT">> >>,
   formative_assessment |-> <<"S_FORM">>,
   summative_assessment |-> <<"S_SUM">>,
   weekly_deliverable |-> <<"S_DELIV">>,
   teacher_notes |-> [n \in 1..MaxNotes |-> <<"S_WNOTE">>]]

EmptyWeekFields == [f \in DOMAIN WeekFields |-> << >>]

OptionalDayKeys ==
  {"objectives", "day_materials", "schedule", "vocabulary", "differentiation",
   "teacher_notes"}

\* a day that has none of its optional fields, and no topic
BareDay == Without(SentinelDay, OptionalDayKeys \cup {"topic"})

TeacherPlan(week, days) ==
  [f \in DOMAIN week \cup {"unit", "days"} |->
     IF f = "unit" THEN UnitName ELSE IF f = "days" THEN days ELSE week[f]]

TeacherPlans ==
  {TeacherPlan(Without(WeekFields, ks), d) :
     ks \in SUBSET DOMAIN WeekFields,
     d \in SeqsUpTo({SentinelDay, PoetryDay, BareDay}, MaxDays)}
  \cup {TeacherPlan(w, <<Without(d, ks)>>) :
          w \in {WeekFields, EmptyWeekFields},
          d \in {SentinelDay, PoetryDay}, ks \in SUBSET OptionalDayKeys}
  \cup {Without(TeacherPlan(WeekFields, << >>), {"days"}),
        TeacherPlan(WeekFields, <<NullDay>>),
        TeacherPlan(EmptyWeekFields, <<SentinelDay, NullDay>>)}

TeacherInit ==
  /\ AtRest
  /\ input \in {Some([plan |-> p, weekNumber |-> 3]) : p \in TeacherPlans}
  /\ output = None

CallGenerateTeacherHandout ==
  /\ output = None
  /\ output' = Some(generateTeacherHandoutBlocks(input[1].plan,
                                                  input[1].weekNumber))
  /\ UNCHANGED <<input, orchestratorVars>>

TeacherNext == CallGenerateTeacherHandout

TeacherSpec == TeacherInit /\ [][TeacherNext]_vars

TeacherCalled == output # None
TeacherReturned == output # None /\ ~output[1].threw
Children == output[1].children
ThePlan == input[1].plan
PlanDays == Field(ThePlan, "days")
WeekNotesPresent == Len(Field(ThePlan, "teacher_notes")) > 0

IsDayHeader(block) == block.what = "dayHeaderTable"
IsHeaderTitled(block, title) ==
  block.what = "sectionHeader" /\ block.content[1] = <<title>>
DayHeaderPositions == {p \in 1..Len(Children) : IsDayHeader(Children[p])}
PageBreakPositions ==
  {p \in 1..Len(Children) : Children[p].what = "pageBreak"}

\* the day a position belongs to: the number of day headers up to it
DayOf(p) == Cardinality({q \in DayHeaderPositions : q <= p})

\* the place of a block in the order of a day's sub-sections; -1 for the
\* blocks that are no sub-section of a day
Rank(block) ==
  CASE IsDayHeader(block) -> 0
    [] IsHeaderTitled(block, "Learning Objectives") -> 1
    [] block.what = "objBox" -> 1
    [] IsHeaderTitled(block, "Materials") -> 2
    [] block.what = "materialsParagraph" -> 2
    [] IsHeaderTitled(block, "Schedule") -> 3
    [] block.what = "scheduleTable" -> 3
    [] IsHeaderTitled(block, "Vocabulary") -> 4
    [] block.what = "vocabTable" -> 4
    [] IsHeaderTitled(block, "Differentiation") -> 5
    [] block.what = "diffTable" -> 5
    [] IsHeaderTitled(block, "Teacher Notes") -> 6
    [] block.what = "notesTable" -> 6
    [] OTHER -> -1

\* C16: the teacher handout shows the days in input order; within a day the
\* emitted sub-sections come in the order day header, objectives, materials,
\* schedule, vocabulary, differentiation, teacher notes; a page break comes
\* before every day but the first and before the week-level teacher notes
\* when there are any, so N >= 1 days give N-1 page breaks, plus one with
\* week-level notes.
C16_DayOrderAndPageBreaks ==
  (TeacherReturned /\ Len(PlanDays) >= 1) =>
    LET headers == SelectSeq(Children, IsDayHeader)
    IN /\ Len(headers) = Len(PlanDays)
       /\ \A n \in 1..Len(PlanDays) :
            /\ headers[n].content[1] = <<"DAY", ToString(n)>>
            /\ headers[n].content[3] =
                 (IF Field(PlanDays[n], "topic") # << >>
                  THEN PlanDays[n].topic ELSE <<"Untitled">>)
       /\ \A p, q \in 1..Len(Children) :
            (/\ p < q
             /\ DayOf(p) = DayOf(q)
             /\ Rank(Children[p]) >= 0
             /\ Rank(Children[q]) >= 0)
            => /\ Rank(Children[p]) <= Rank(Children[q])
               /\ Rank(Children[p]) = Rank(Children[q])
                    => (Children[p].what = "sectionHeader" /\ q = p + 1)
       /\ \A p \in DayHeaderPositions :
            (DayOf(p) > 1) <=> (p - 1) \in PageBreakPositions
       /\ WeekNotesPresent =>
            \E p \in PageBreakPositions :
              /\ p < Len(Children)
              /\ IsHeaderTitled(Children[p + 1], "Weekly Teacher Notes")
       /\ Cardinality(PageBreakPositions) =
            Len(PlanDays) - 1 + (IF WeekNotesPresent THEN 1 ELSE 0)

\* two days, the first with every sub-section, and week-level notes: two page
\* breaks
C16_Witness ==
  /\ TeacherReturned
  /\ PlanDays = <<SentinelDay, PoetryDay>>
  /\ WeekNotesPresent
  /\ Cardinality(PageBreakPositions) = 2
  /\ \E p \in 1..Len(Children) : Children[p].what = "notesTable"

\* the sections of the document, found by their headers and their tables
HasHeader(title) ==
  \E p \in 1..Len(Children) : IsHeaderTitled(Children[p], title)
HasBlock(what) == \E p \in 1..Len(Children) : Children[p].what = what
DayHasHeader(n, title) ==
  \E p \in 1..Len(Children) :
    DayOf(p) = n /\ IsHeaderTitled(Children[p], title)
DayHasBlock(n, what) ==
  \E p \in 1..Len(Children) : DayOf(p) = n /\ Children[p].what = what

\* a field that is there and not empty
Filled(obj, key) == Field(obj, key) # << >>

AllSlotsEmpty(day) ==
  /\ day.differentiation.Advanced = << >>
  /\ day.differentiation.Struggling = << >>
  /\ day.differentiation.ELL = << >>

NoNullDay == \A n \in 1..Len(PlanDays) : ~IsNull(PlanDays[n])

\* the sections of the week follow their fields
WeekSectionsFollowFields ==
  /\ HasHeader("Week Overview") <=>
       (Filled(ThePlan, "week_overview") \/ Filled(ThePlan, "week_focus"))
  /\ HasBlock("overviewTable") <=> HasHeader("Week Overview")
  /\ HasHeader("Weekly Learning Objectives") <=>
       Filled(ThePlan, "week_objectives")
  /\ HasBlock("objTable") <=> HasHeader("Weekly Learning Objectives")
  /\ HasHeader("Materials Needed for the Week") <=>
       Filled(ThePlan, "week_materials")
  /\ HasBlock("matTable") <=> HasHeader("Materials Needed for the Week")
  /\ HasHeader("Assessment Overview") <=>
       \/ Filled(ThePlan, "formative_assessment")
       \/ Filled(ThePlan, "summative_assessment")
       \/ Filled(ThePlan, "weekly_deliverable")
  /\ HasBlock("assessTable") <=> HasHeader("Assessment Overview")
  /\ HasHeader("Weekly Teacher Notes") <=> Filled(ThePlan, "teacher_notes")
  /\ HasBlock("weekNotesTable") <=> HasHeader("Weekly Teacher Notes")

\* the sub-sections of day n other than Differentiation follow their fields
DaySectionsFollowFields(n) ==
  /\ DayHasHeader(n, "Learning Objectives") <=>
       (objectivesOf(PlanDays[n]) # << >>)
  /\ DayHasBlock(n, "objBox") <=> DayHasHeader(n, "Learning Objectives")
  /\ DayHasHeader(n, "Materials") <=> Filled(PlanDays[n], "day_materials")
  /\ DayHasBlock(n, "materialsParagraph") <=> DayHasHeader(n, "Materials")
  /\ DayHasHeader(n, "Schedule") <=> Filled(PlanDays[n], "schedule")
  /\ DayHasBlock(n, "scheduleTable") <=> DayHasHeader(n, "Schedule")
  /\ DayHasHeader(n, "Vocabulary") <=> Filled(PlanDays[n], "vocabulary")
  /\ DayHasBlock(n, "vocabTable") <=> DayHasHeader(n, "Vocabulary")
  /\ DayHasHeader(n, "Teacher Notes") <=> Filled(PlanDays[n], "teacher_notes")
  /\ DayHasBlock(n, "notesTable") <=> DayHasHeader(n, "Teacher Notes")
  /\ DayHasBlock(n, "diffTable") <=> DayHasHeader(n, "Differentiation")

\* C17: generateTeacherHandout never throws on a missing optional
\* field and emits each section if and only if its own field is present and
\* non-empty; a day whose three differentiation slots are all empty has no
\* Differentiation section.
C17_Original_EmptySlotsNoDifferentiation ==
  (TeacherCalled /\ NoNullDay) =>
    /\ ~output[1].threw
    /\ WeekSectionsFollowFields
    /\ \A n \in 1..Len(PlanDays) :
         /\ DaySectionsFollowFields(n)
         /\ DayHasHeader(n, "Differentiation") <=>
              /\ "differentiation" \in DOMAIN PlanDays[n]
              /\ ~AllSlotsEmpty(PlanDays[n])

\* ---------------------------------------------------------- student handout
MaxSections == 2
MaxQuestions == 2
MaxLines == 2

\* an optional field with the value it has when it is missing
FieldOr(obj, key, default) == IF key \in DOMAIN obj THEN obj[key] ELSE default

\* new Paragraph({})
emptyParagraph == Block("emptyParagraph", << >>)

sectionHeader(text) == Block("sectionHeader", << text >>)

\* the title, and the subtitle if there is one
studentHeaderBanner(title, subtitle) ==
  Block("studentHeaderBanner",
        << IF title # << >> THEN title ELSE <<"Student Handout">> >>
        \o (IF subtitle # << >> THEN <<subtitle>> ELSE << >>))

\* `${idx + 1}. ${item}`, one paragraph an item
simpleNumberedList(items) ==
  [n \in 1..Len(items) |->
     Block("numberedItem", << <<ToString(n), ". ">> \o items[n] >>)]

\* the bullet and the item, one paragraph an item
simpleBulletList(items) ==
  [n \in 1..Len(items) |-> Block("bulletItem", << <<"* ">> \o items[n] >>)]

\* count paragraphs of 85 underscores
writingLines(count) ==
  [n \in 1..count |-> Block("writingLine", << <<"_x85">> >>)]

\* the question after its number, then two answer lines
questionBlock_numberedFromZero(question, index) ==
  << Block("questionParagraph", << <<ToString(index), ". ">> \o question >>),
     Block("answerLine", << <<"_x85">> >>),
     Block("answerLine", << <<"_x85">> >>) >>
questionBlock(question, index) ==
  << Block("questionParagraph",
           << <<ToString(index + 1), ". ">> \o question >>),
     Block("answerLine", << <<"_x85">> >>),
     Block("answerLine", << <<"_x85">> >>) >>

\* one pass of the loop over the sections
sectionBlocks(section) ==
  << sectionHeader(IF Field(section, "heading") # << >>
                   THEN section.heading ELSE <<"Content">>) >>
  \o (IF Field(section, "content") # << >>
      THEN << Block("contentParagraph", <<section.content>>) >>
      ELSE << >>)
  \o (IF Len(Field(section, "items")) > 0
      THEN IF FieldOr(section, "numbered", FALSE)
           THEN simpleNumberedList(section.items)
           ELSE simpleBulletList(section.items)
      ELSE << >>)
  \o (IF FieldOr(section, "blank_lines", 0) > 0
      THEN <<emptyParagraph>> \o writingLines(section.blank_lines)
      ELSE << >>)
  \o <<emptyParagraph>>

\* the children of the one section of the document
studentHandoutChildren(handout) ==
  LET sections == Field(handout, "sections")
      questions == Field(handout, "questions")
  IN << studentHeaderBanner(Field(handout, "title"),
                            Field(handout, "subtitle")),
        emptyParagraph >>
     \o (IF Field(handout, "instructions") # << >>
         THEN << Block("contentBox", <<handout.instructions>>),
                 emptyParagraph >>
         ELSE << >>)
     \o Flatten([n \in 1..Len(sections) |-> sectionBlocks(sections[n])])
     \o (IF Len(questions) > 0
         THEN << sectionHeader(<<"Questions">>) >>
              \o Flatten([n \in 1..Len(questions) |->
                            questionBlock(questions[n], n - 1)])
              \o <<emptyParagraph>>
         ELSE << >>)
     \o (IF Len(Field(handout, "vocabulary")) > 0
         THEN << sectionHeader(<<"Vocabulary">>),
                 Block("vocabTable", handout.vocabulary), emptyParagraph >>
         ELSE << >>)
     \o (IF Len(Field(handout, "tips")) > 0
         THEN << sectionHeader(<<"Tips & Notes">>),
                 Block("noteBox", handout.tips) >>
         ELSE << >>)

\* sections: with and without heading, content and items, numbered or not,
\* with and without writing lines
HandoutSections ==
  { [heading |-> <<"Intro">>, items |-> << <<"S_I1">>, <<"S_I2">> >>,
     numbered |-> TRUE, content |-> <<"S_CONTENT">>, blank_lines |-> MaxLines],
    [heading |-> <<"Steps">>, items |-> << <<"S_I1">>, <<"S_I2">> >>,
     numbered |-> FALSE, blank_lines |-> 1],
    [heading |-> <<"Notes">>, items |-> << <<"S_I3">> >>,
     content |-> <<"S_CONTENT">>],
    [heading |-> << >>, items |-> << >>, numbered |-> TRUE,
     blank_lines |-> 0],
    [heading |-> <<"Write">>, items |-> << >>, content |-> << >>,
     blank_lines |-> MaxLines] }

StudentHandouts ==
  {Without([name |-> GuideName, title |-> <<"S_TITLE">>, subtitle |-> << >>,
            instructions |-> ins, sections |-> secs, questions |-> qs,
            vocabulary |-> << <<"lens", "def">> >>, tips |-> << <<"S_TIP">> >>],
           ks) :
     ins \in {<< >>, <<"S_INS">>},
     secs \in SeqsUpTo(HandoutSections, MaxSections),
     qs \in SeqsUpTo({<<"S_QA">>, <<"S_QB">>}, MaxQuestions),
     ks \in SUBSET {"vocabulary", "tips"}}
  \cup {Without([name |-> GuideName, title |-> << >>], { })}

StudentInit ==
  /\ AtRest
  /\ input \in {Some([handout |-> h, weekNumber |-> 3]) : h \in StudentHandouts}
  /\ output = None

CallGenerateStudentHandout ==
  /\ output = None
  /\ output' = Some([fn |-> "generateStudentHandout", threw |-> FALSE,
                     children |-> studentHandoutChildren(input[1].handout)])
  /\ UNCHANGED <<input, orchestratorVars>>

StudentNext == CallGenerateStudentHandout

StudentSpec == StudentInit /\ [][StudentNext]_vars

StudentReturned == output # None
TheHandout == input[1].handout
TheSections == Field(TheHandout, "sections")
TheQuestions == Field(TheHandout, "questions")

\* the place of a block in the order of the document; -1 for the spacing
BlockRank(block) ==
  CASE block.what = "studentHeaderBanner" -> 0
    [] block.what = "contentBox" -> 1
    [] block.what = "sectionHeader" ->
         (CASE block.content[1] = <<"Questions">> -> 3
            [] block.content[1] = <<"Vocabulary">> -> 4
            [] block.content[1] = <<"Tips & Notes">> -> 5
            [] OTHER -> 2)
    [] block.what \in {"contentParagraph", "numberedItem", "bulletItem",
                       "writingLine"} -> 2
    [] block.what \in {"questionParagraph", "answerLine"} -> 3
    [] block.what = "vocabTable" -> 4
    [] block.what = "noteBox" -> 5
    [] OTHER -> -1

\* the place of a block within its section
InnerRank(block) ==
  CASE block.what = "sectionHeader" -> 0
    [] block.what = "contentParagraph" -> 1
    [] block.what \in {"numberedItem", "bulletItem"} -> 2
    [] block.what = "writingLine" -> 3
    [] OTHER -> -1

IsSectionHeading(block) == block.what = "sectionHeader" /\ BlockRank(block) = 2
IsQuestionParagraph(block) == block.what = "questionParagraph"

\* the section a position belongs to: the number of headings up to it
SectionOf(p) ==
  Cardinality({q \in 1..p : IsSectionHeading(Children[q])})

\* the blocks of kind what in section n, in order
SectionBlocksOf(n, what) ==
  LET InSection(p) ==
        /\ BlockRank(Children[p]) = 2
        /\ SectionOf(p) = n
        /\ Children[p].what = what
      places == {p \in 1..Len(Children) : InSection(p)}
      nth[m \in 1..Cardinality(places)] ==
        CHOOSE p \in places : Cardinality({q \in places : q <= p}) = m
  IN [m \in 1..Cardinality(places) |-> Children[nth[m]]]

\* C18: the student handout shows header banner, instructions box, the
\* sections in input order, Questions, Vocabulary, Tips, in this order; a
\* section shows heading, content, items, writing lines, in this order; the
\* numbered flag alone selects the numbered or the bulleted rendering of the
\* items; a section has blank_lines writing lines; the questions are
\* numbered 1..n in input order.
C18_StudentHandoutOrder ==
  StudentReturned =>
    /\ Children[1].what = "studentHeaderBanner"
    /\ \A p, q \in 1..Len(Children) :
         (p < q /\ BlockRank(Children[p]) >= 0 /\ BlockRank(Children[q]) >= 0)
         => /\ BlockRank(Children[p]) <= BlockRank(Children[q])
            /\ (BlockRank(Children[p]) = 2 /\ BlockRank(Children[q]) = 2
                /\ SectionOf(p) = SectionOf(q))
               => InnerRank(Children[p]) <= InnerRank(Children[q])
    /\ LET headings == SelectSeq(Children, IsSectionHeading)
       IN /\ Len(headings) = Len(TheSections)
          /\ \A n \in 1..Len(TheSections) :
               headings[n].content[1] =
                 (IF Field(TheSections[n], "heading") # << >>
                  THEN TheSections[n].heading ELSE <<"Content">>)
    /\ \A n \in 1..Len(TheSections) :
         LET section == TheSections[n]
             items == Field(section, "items")
             numbered == SectionBlocksOf(n, "numberedItem")
             bulleted == SectionBlocksOf(n, "bulletItem")
         IN /\ IF FieldOr(section, "numbered", FALSE)
               THEN /\ Len(numbered) = Len(items)
                    /\ Len(bulleted) = 0
                    /\ \A m \in 1..Len(items) :
                         numbered[m].content =
                           << <<ToString(m), ". ">> \o items[m] >>
               ELSE /\ Len(bulleted) = Len(items)
                    /\ Len(numbered) = 0
                    /\ \A m \in 1..Len(items) :
                         bulleted[m].content = << <<"* ">> \o items[m] >>
            /\ Len(SectionBlocksOf(n, "writingLine")) =
                 FieldOr(section, "blank_lines", 0)
    /\ LET asked == SelectSeq(Children, IsQuestionParagraph)
       IN /\ Len(asked) = Len(TheQuestions)
          /\ \A m \in 1..Len(TheQuestions) :
               asked[m].content = << <<ToString(m), ". ">> \o TheQuestions[m] >>

\* a numbered section with content and writing lines, then a bulleted one,
\* two different questions, vocabulary and tips
C18_Witness ==
  /\ StudentReturned
  /\ Len(TheSections) = 2
  /\ TheSections[1].heading = <<"Intro">>
  /\ TheSections[2].heading = <<"Steps">>
  /\ TheQuestions = << <<"S_QB">>, <<"S_QA">> >>
  /\ Field(TheHandout, "instructions") # << >>
  /\ Len(SectionBlocksOf(1, "numberedItem")) = 2
  /\ Len(SectionBlocksOf(2, "bulletItem")) = 2
  /\ Len(SectionBlocksOf(1, "writingLine")) = MaxLines
  /\ \E p \in 1..Len(Children) : Children[p].what = "vocabTable"
  /\ Children[Len(Children)].what = "noteBox"

\* ------------------------------------------------- setCellText on its own
MaxParas == 2

\* a run with run properties
StyledRun(props, atoms) ==
  <<"<w:r>", "<w:rPr>">> \o props \o <<"</w:rPr>", "<w:t>">> \o atoms
    \o <<"</w:t>", "</w:r>">>

\* the paragraphs of a cell: without a run, with one or two text elements,
\* with an empty or a self-closing text element, self-closing itself, and
\* with runs in bold, black and blue
CellParagraphs ==
  { Para(<< >>),
    Para(Run(<<"old">>)),
    Para(RedRun(<<"guide">>) \o Run(<<"here">>)),
    Para(<<"<w:r>", "<w:t/>", "</w:r>">>),
    Para(<<"<w:r>", "<w:t>", "</w:t>", "</w:r>">>),
    <<"<w:p/>">>,
    Para(StyledRun(<<"<w:b/>", "<w:color w:val=\"000000\"/>">>, <<"old">>)),
    Para(StyledRun(<<"<w:color w:val=\"0000FF\"/>">>, <<"old">>)
         \o StyledRun(<<"<w:color w:val=\"C00000\"/>", "<w:b/>">>,
                      <<"guide">>)) }

CellTexts == {<<"new">>, <<"Q&A", "<b>">>, <<"$1", "new">>, << >>}

CellInit ==
  /\ AtRest
  /\ input \in {Some([cellXml |-> Cell(Flatten(ps)), newText |-> t]) :
                  ps \in SeqsUpTo(CellParagraphs, MaxParas) \ {<< >>},
                  t \in CellTexts}
  /\ output = None

CallSetCellText ==
  /\ output = None
  /\ output' = Some(setCellText(input[1].cellXml, input[1].newText))
  /\ UNCHANGED <<input, orchestratorVars>>

CellNext == CallSetCellText

CellSpec == CellInit /\ [][CellNext]_vars

CellSet == output # None
CellBefore == input[1].cellXml
CellAfter == output[1]

\* the text elements of a cell: the positions of their opening tags
TextElementsOf(xml) == {p \in 1..Len(xml) : xml[p] \in TextElementTags}

\* the character data of the text element that opens at p
TextOfElement(xml, p) ==
  IF xml[p] = "<w:t/>" THEN << >>
  ELSE LET stop == {m \in (p + 1)..Len(xml) : ~IsCharData(xml[m])}
       IN ExtractText(SubSeq(xml, p + 1, Least(stop) - 1))

\* the cell has a text element that holds text
HasText(xml) == \E p \in TextElementsOf(xml) : TextOfElement(xml, p) # << >>

\* C19: after setCellText(cell, text) on a cell with a paragraph the text
\* elements of the cell hold text, once, and nothing of the original text: the
\* first text element holds it and the later ones are empty; a cell without
\* text, its only text element empty or self-closing included, has a run with
\* the text in its first paragraph.
C19_Original_CellHoldsTheText ==
  (CellSet /\ \E p \in 1..Len(CellBefore) : CellBefore[p] \in {"<w:p>", "<w:p/>"})
  => /\ ExtractText(CellAfter) = input[1].newText
     /\ \A p \in TextElementsOf(CellAfter) :
          TextOfElement(CellAfter, p) =
            (IF p = Least(TextElementsOf(CellAfter))
             THEN input[1].newText ELSE << >>)
     /\ ~HasText(CellBefore) =>
          LET first == Least({p \in 1..Len(CellAfter) :
                                CellAfter[p] \in {"<w:p>", "<w:p/>"}})
              runs == {p \in TextElementsOf(CellAfter) :
                         /\ p > first
                         /\ CellAfter[p - 1] = "<w:r>"
                         /\ TextOfElement(CellAfter, p) = input[1].newText}
          IN /\ runs # {}
             /\ \A p \in first..Least(runs) : CellAfter[p] # "</w:p>"

\* the formatting elements of a cell that are no red colour
IsKeptFormatting(tok) ==
  tok \in {"<w:rPr>", "</w:rPr>", "<w:b/>", "<w:tcPr/>", "<w:pPr/>",
           "<w:color w:val=\"000000\"/>", "<w:color w:val=\"0000FF\"/>"}

\* C20: setCellText removes the colour elements of red text and keeps every
\* other formatting element of the cell, a colour that is not a red (black
\* 000000, a blue) included, unchanged and in place.
C20_Original_OtherFormattingKept ==
  CellSet =>
    /\ SelectSeq(CellAfter, IsKeptFormatting)
         = SelectSeq(CellBefore, IsKeptFormatting)
    /\ \A p \in 1..Len(CellAfter) :
         CellAfter[p] \notin {"<w:color w:val=\"FF0000\"/>",
                              "<w:color w:val=\"C00000\"/>"}

\* ----------------------------------------------- markCheckboxes on its own
MaxLabels == 2

\* the five vocabularies with the labels a template cell of the model shows
Vocabularies ==
  { [map |-> MATERIALS_CHECKBOXES,
     labels |-> {"TEXTBOOK", "Labs", "Other Equipment"}],
    [map |-> METHODS_CHECKBOXES, labels |-> {"Discussion", "Lecture"}],
    [map |-> ASSESSMENT_CHECKBOXES, labels |-> {"Classwork", "Test"}],
    [map |-> CURRICULUM_CHECKBOXES, labels |-> {"Science", "Fine Arts"}],
    [map |-> OTHER_AREAS_CHECKBOXES, labels |-> {"Varied Learning", "Safety"}] }

\* a checkbox of a template: the underscores, the blank if any, the label
Checkbox(under, blank, label) ==
  [under |-> under, blank |-> blank, label |-> label]
CheckboxText(box) == <<box.under>> \o box.blank \o <<box.label>>

\* the checkboxes with the labels of a vocabulary
CheckboxesOf(labels) ==
  {Checkbox("___", <<" ">>, l) : l \in labels}
    \cup {Checkbox("_", << >>, l) : l \in labels}

\* a cell with one run a checkbox
CellOfBoxes(boxes) ==
  Cell(Para(Flatten([n \in 1..Len(boxes) |-> Run(CheckboxText(boxes[n]))])))

\* the key of a label in a vocabulary, "" when it has none
KeyOfLabel(checkboxMap, label) ==
  LET hits == {n \in 1..Len(checkboxMap) :
                 LowerLabel(checkboxMap[n][2]) = LowerLabel(label)}
  IN IF hits = {} THEN "" ELSE checkboxMap[Least(hits)][1]

\* the label of a key as the vocabulary writes it
LabelOfKey(checkboxMap, key) ==
  LET hits == {n \in 1..Len(checkboxMap) : checkboxMap[n][1] = key}
  IN checkboxMap[Least(hits)][2]

\* the keys of a set of labels, in the order of the vocabulary
KeysInOrder(checkboxMap, keys) ==
  LET Chosen(entry) == entry[1] \in keys
      chosen == SelectSeq(checkboxMap, Chosen)
  IN [n \in 1..Len(chosen) |-> chosen[n][1]]

\* the calls with the cells and the selections of one vocabulary
MarkInputs(v) ==
  {[boxes |-> b, text |-> CellOfBoxes(b), checkboxMap |-> v.map,
    selected |-> KeysInOrder(v.map, ks)] :
     b \in SeqsUpTo(CheckboxesOf(v.labels), MaxLabels),
     ks \in SUBSET {KeyOfLabel(v.map, l) : l \in v.labels}}

MarkInit ==
  /\ AtRest
  /\ input \in {Some(c) : c \in UNION {MarkInputs(v) : v \in Vocabularies}}
  /\ output = None

CallMarkCheckboxes ==
  /\ output = None
  /\ output' = Some(markCheckboxes(input[1].text, input[1].checkboxMap,
                                   input[1].selected))
  /\ UNCHANGED <<input, orchestratorVars>>

MarkNext == CallMarkCheckboxes

MarkSpec == MarkInit /\ [][MarkNext]_vars

Marked == output # None
IsSelected(key) ==
  \E n \in 1..Len(input[1].selected) : input[1].selected[n] = key

\* the texts of the text elements of a piece of XML, in order
RunTexts(xml) ==
  LET m == MatchAll(xml, {"<w:t>"}, "</w:t>", 1)
  IN [n \in 1..Len(m) |-> SubSeq(xml, m[n][1] + 1, m[n][2] - 1)]

\* C21: markCheckboxes puts X in the place of the underscores in front of a
\* label if and only if the key of the label is selected: every selected label
\* of the cell is marked, the placeholder and the text of every other label
\* are as they were, and so is the markup, for each of the five vocabularies.
C21_MarksExactlyTheSelected ==
  Marked =>
    LET boxes == input[1].boxes
        before == input[1].text
        after == output[1]
        texts == RunTexts(after)
        NotText(tok) == tok \in Tags
    IN /\ Len(texts) = Len(boxes)
       /\ SelectSeq(after, NotText) = SelectSeq(before, NotText)
       /\ \A n \in 1..Len(boxes) :
            LET key == KeyOfLabel(input[1].checkboxMap, boxes[n].label)
            IN texts[n] =
                 (IF IsSelected(key)
                  THEN <<"X ", LabelOfKey(input[1].checkboxMap, key)>>
                  ELSE CheckboxText(boxes[n]))

\* a materials cell with two checkboxes, the first one selected and written in
\* capitals, the second one not selected
C21_Witness ==
  /\ Marked
  /\ input[1].checkboxMap = MATERIALS_CHECKBOXES
  /\ Len(input[1].boxes) = 2
  /\ input[1].boxes[1].label = "TEXTBOOK"
  /\ input[1].boxes[2].label = "Labs"
  /\ input[1].selected = <<"textbook", "other_equipment">>
  /\ RunTexts(output[1]) = << <<"X ", "Textbook">>, <<"___", " ", "Labs">> >>

\* -------------------------------------------- one cell, two ways to split it
MaxCuts == 2

\* the text cut into runs after the positions cuts
SplitIntoRuns(text, cuts) ==
  LET NthCut(r) == CHOOSE c \in cuts : Cardinality({d \in cuts : d <= c}) = r
      From(r) == IF r = 1 THEN 1 ELSE NthCut(r - 1) + 1
      To(r) == IF r = Cardinality(cuts) + 1 THEN Len(text) ELSE NthCut(r)
  IN Flatten([r \in 1..(Cardinality(cuts) + 1) |->
                Run(SubSeq(text, From(r), To(r)))])

\* the visible texts of the cells: checkboxes, and guidance text
VisibleTexts ==
  { <<"___", " ", "Labs">>, <<"_", "TEXTBOOK", "___", " ", "Labs">>,
    <<"___", "Other Equipment">>, <<"guide", "here">> }

CutsOf(text) ==
  {c \in SUBSET (1..(Len(text) - 1)) : Cardinality(c) <= MaxCuts}

\* the fills of a cell: checkboxes of the materials, or a text
SplitFills ==
  {CheckFill(7, 1, MATERIALS_CHECKBOXES, KeysInOrder(MATERIALS_CHECKBOXES, ks)) :
     ks \in SUBSET {"textbook", "labs", "other_equipment"}}
  \cup {TextFill(7, 0, t) : t \in {<<"new">>, << >>}}

SplitInputs(text) ==
  {[fill |-> f, visible |-> text,
    cellA |-> Cell(Para(SplitIntoRuns(text, a))),
    cellB |-> Cell(Para(SplitIntoRuns(text, b)))] :
     f \in SplitFills, a \in CutsOf(text), b \in CutsOf(text)}

SplitInit ==
  /\ AtRest
  /\ input \in {Some(c) : c \in UNION {SplitInputs(t) : t \in VisibleTexts}}
  /\ output = None

\* the fill of the cell of one template, and of the cell of the other
CallNewCellTwice ==
  /\ output = None
  /\ output' = Some([cellA |-> NewCell(input[1].cellA, input[1].fill),
                     cellB |-> NewCell(input[1].cellB, input[1].fill)])
  /\ UNCHANGED <<input, orchestratorVars>>

SplitNext == CallNewCellTwice

SplitSpec == SplitInit /\ [][SplitNext]_vars

\* C22: two cells with the same visible text and different run boundaries
\* show the same text after the same fill, the same marked checkboxes
\* included.
C22_Original_RunBoundariesDoNotMatter ==
  (output # None
   /\ ExtractText(input[1].cellA) = ExtractText(input[1].cellB))
  => ExtractText(output[1].cellA) = ExtractText(output[1].cellB)

\* ------------------------------- the texts of the procedures and of the
\* differentiation, built on their own
MaxSchedule == 2

\* schedule items with and without time, name and description
ScheduleItems ==
  {Item(Some(t), Some(n), Some(d)) :
     t \in {<< >>, <<"9:00">>}, n \in {<< >>, <<"Lab">>},
     d \in {<< >>, <<"discuss">>}}

Differentiations ==
  {Diff(a, b, c) : a \in {<< >>, <<"S_AV">>}, b \in {<< >>, <<"S_STR">>},
                   c \in {<< >>, <<"S_ELL">>}}

TextInit ==
  /\ AtRest
  /\ input \in {Some([schedule |-> sch, differentiation |-> d]) :
                  sch \in SeqsUpTo(ScheduleItems, MaxSchedule),
                  d \in Differentiations}
  /\ output = None

CallBuildProceduresText ==
  /\ output = None
  /\ output' = Some([fn |-> "buildProceduresText",
                     text |-> buildProceduresText(input[1].schedule)])
  /\ UNCHANGED <<input, orchestratorVars>>

CallBuildDifferentiationText ==
  /\ output = None
  /\ output' = Some([fn |-> "buildDifferentiationText",
                     text |-> buildDifferentiationText(
                                input[1].differentiation)])
  /\ UNCHANGED <<input, orchestratorVars>>

TextNext == CallBuildProceduresText \/ CallBuildDifferentiationText

TextSpec == TextInit /\ [][TextNext]_vars

\* the lines of a text: its pieces between the newlines
LinesOf(text) ==
  IF text = << >> THEN << >>
  ELSE LET breaks == {p \in 1..Len(text) : text[p] = "\n"}
           NthBreak(r) ==
             CHOOSE p \in breaks : Cardinality({q \in breaks : q <= p}) = r
           From(r) == IF r = 1 THEN 1 ELSE NthBreak(r - 1) + 1
           To(r) == IF r = Cardinality(breaks) + 1 THEN Len(text)
                    ELSE NthBreak(r) - 1
       IN [r \in 1..(Cardinality(breaks) + 1) |-> SubSeq(text, From(r), To(r))]

\* an item with a time or a name
HasTimeOrName(item) == OrEmpty(item.time) # << >> \/ OrEmpty(item.name) # << >>

\* C23: the procedures text has one line for every schedule item that has a
\* time or a name, in schedule order, of the form "<time> - <name>:
\* <description>", the lines joined by newlines; only an item without time and
\* without name is dropped.
C23_Original_DroppedOnlyWithoutTimeAndName ==
  (output # None /\ output[1].fn = "buildProceduresText") =>
    LET kept == SelectSeq(input[1].schedule, HasTimeOrName)
        lines == LinesOf(output[1].text)
    IN /\ Len(lines) = Len(kept)
       /\ \A n \in 1..Len(kept) :
            lines[n] = OrEmpty(kept[n].time) \o <<" - ">> \o OrEmpty(kept[n].name)
                         \o <<": ">> \o OrEmpty(kept[n].description)

\* C24: the differentiation text has three labeled lines, for Advanced,
\* Struggling and ELL in this order, whatever the three slots hold; an empty
\* slot has its labeled line too.
C24_Original_ThreeLabeledLines ==
  (output # None /\ output[1].fn = "buildDifferentiationText") =>
    LET lines == LinesOf(output[1].text)
        diff == input[1].differentiation
    IN /\ Len(lines) = 3
       /\ lines[1] = <<"Advanced Learners: ">> \o diff.Advanced
       /\ lines[2] = <<"Struggling Learners: ">> \o diff.Struggling
       /\ lines[3] = <<"ELL Students: ">> \o diff.ELL

\* --------------------------------------- the five classifiers on two days
\* days that differ in objectives, materials, activity names, descriptions
\* and differentiation
ClassifyDays ==
  {Day(<<"sonnet">>, << >>, Some(objectives), materials,
       << Item(Some(<<"9:00">>), Some(name), Some(description)) >>, diff) :
     objectives \in {<< >>, << <<"Lighting">> >>},
     materials \in {<< >>, << <<"tripod">> >>},
     name \in {<<"sonnet">>, <<"Lab">>, <<"Lighting">>},
     description \in {<<"haiku">>, <<"discuss">>},
     diff \in {Diff(<< >>, << >>, << >>), Diff(<<"haiku">>, << >>, << >>)}}

\* the five results fillCTETemplate computes for a day
Classify(day) ==
  LET curriculumAreas == inferCurriculumAreas(day)
  IN [materials |-> inferMaterials(day),
      methods |-> inferMethods(day),
      assessment |-> inferAssessment(day),
      curriculumAreas |-> curriculumAreas,
      otherAreas |-> inferOtherAreas(day, curriculumAreas)]

ClassifyInit ==
  /\ AtRest
  /\ input \in {Some(<<a, b>>) : a \in ClassifyDays, b \in ClassifyDays}
  /\ output = None

CallClassifiers ==
  /\ output = None
  /\ output' = Some(<<Classify(input[1][1]), Classify(input[1][2])>>)
  /\ UNCHANGED <<input, orchestratorVars>>

ClassifyNext == CallClassifiers

ClassifySpec == ClassifyInit /\ [][ClassifyNext]_vars

KeySet(keys) == {keys[n] : n \in 1..Len(keys)}

\* topic, overview, objectives and schedule descriptions, joined by blanks and
\* lower-cased
DescribedText(day) ==
  toLowerCase(day.topic \o SP \o day.overview \o SP \o objectivesText(day) \o SP
              \o Join([n \in 1..Len(day.schedule) |->
                         Str(day.schedule[n].description)], SP))

SameKeys(a, b) ==
  /\ KeySet(a.materials) = KeySet(b.materials)
  /\ KeySet(a.methods) = KeySet(b.methods)
  /\ KeySet(a.assessment) = KeySet(b.assessment)
  /\ KeySet(a.curriculumAreas) = KeySet(b.curriculumAreas)
  /\ KeySet(a.otherAreas) = KeySet(b.otherAreas)

\* C25: two days with the same lower-cased text of topic, overview, objectives
\* and schedule descriptions get the same keys from each of the five
\* classifiers, whatever their materials, differentiation and activity names.
C25_Original_KeysFromLessonTextOnly ==
  (output # None /\ DescribedText(input[1][1]) = DescribedText(input[1][2]))
    => SameKeys(output[1][1], output[1][2])

\* the keywords in the text the other-areas classifier tests
KeywordsRead(day) ==
  UNION {KeywordsIn(lessonText(day)[n]) : n \in 1..Len(lessonText(day))}

\* C26: the keys of one inference function do not depend on the result of
\* another one: two days on which every keyword test of the other-areas
\* classifier has the same outcome get the same other areas, whatever the
\* curriculum areas inferred for them.
C26_Original_OtherAreasFromOwnTestsOnly ==
  (output # None /\ KeywordsRead(input[1][1]) = KeywordsRead(input[1][2]))
    => KeySet(output[1][1].otherAreas) = KeySet(output[1][2].otherAreas)

\* ------------------------------------ the row/cell mapping of the filler
\* C27: the filler follows the mapping documented in its code: in row 13 the
\* differentiation text is written to cell 2 and to no other cell of the row
\* (cell 0 holds the assessment checkboxes), and in rows 15 and 17 only cell 0
\* is modified.
C27_Original_DifferentiationInCellTwo ==
  (FillReturned /\ InRange /\ InXml = DocumentXml(18, TRUE, {})) =>
    LET cellsIn == getTableCells(InXml)
        cellsOut == getTableCells(OutXml)
    IN /\ ExtractText(CellOf(cellsOut, 13, 2))
            = buildDifferentiationText(TheDay.differentiation)
       /\ CellOf(cellsOut, 13, 1) = CellOf(cellsIn, 13, 1)
       /\ \A r \in {15, 17} : \A c \in 1..(Len(cellsIn[r + 1]) - 1) :
            CellOf(cellsOut, r, c) = CellOf(cellsIn, r, c)

\* -------------------------- the file names of one generateAllDocuments call
\* a name of 25 letters "a" and one more character
LongName(last) == [n \in 1..26 |-> IF n = 26 THEN last ELSE "a"]

\* handout names: two that agree on their first 25 characters, two without a
\* letter or digit, and a short one
CollidingNames == {LongName("b"), LongName("c"), <<"?">>, <<"!", "?">>, GuideName}

DistinctPlans ==
  {[week |-> <<"3">>, unit |-> UnitName, days |-> << SentinelDay >>,
    student_handouts |-> s, teacherDataOk |-> TRUE] :
     s \in {h \in SeqsUpTo({Handout(name, TRUE) : name \in CollidingNames},
                           MaxHandouts) :
              \A a, b \in 1..Len(h) : a # b => h[a] # h[b]}}

\* generateAllDocuments called with plans whose handouts have different names
DistinctInit ==
  /\ lessonPlan \in DistinctPlans
  /\ templateId = None
  /\ env \in {e \in Envs : e.lookup = "ok"}
  /\ pc = "load"
  /\ templateBuffer = None
  /\ i = 0
  /\ k = 0
  /\ files = << >>
  /\ calls = << >>
  /\ dayIndex = 0
  /\ outcome = None
  /\ inferred = None
  /\ input = None
  /\ output = None

DistinctSpec == DistinctInit /\ [][Next]_vars

\* C28: the names of the files of one generateAllDocuments call are pairwise
\* distinct, also when two handout names agree on their first 25 slug
\* characters or hold no letter or digit.
C28_Original_FileNamesDistinct ==
  \A a, b \in 1..Len(files) : a # b => files[a].name # files[b].name

\* ------------------------------------------- filling a filled document again
\* a day whose overview holds a price
PriceDay ==
  Day(<<"sonnet">>, <<"kits at ", "$2", "0">>, Some(<< <<"haiku">> >>), << >>,
      << Item(Some(<<"9:00">>), Some(<<"sonnet">>), Some(<<"haiku">>)) >>,
      Diff(<<"haiku">>, << >>, << >>))

RefillPlans ==
  {[week |-> <<"3">>, unit |-> UnitName, days |-> << d >>,
    student_handouts |-> << >>, teacherDataOk |-> TRUE] :
     d \in Days \cup {PriceDay}}

RefillInit ==
  /\ lessonPlan \in RefillPlans
  /\ templateId = None
  /\ env = [defaultAsset |-> None, lookup |-> "ok", download |-> "ok",
            stored |-> NoDocumentArchive]
  /\ pc = "call"
  /\ templateBuffer \in {Some(t) : t \in Templates}
  /\ i = 0
  /\ k = 0
  /\ files = << >>
  /\ calls = << >>
  /\ dayIndex \in 0..1
  /\ outcome = None
  /\ inferred = None
  /\ input = None
  /\ output = None

\* output = fillCTETemplate(<the buffer of the first fill>, lessonPlan, dayIndex)
CallFillCTETemplateAgain ==
  /\ pc = "call"
  /\ outcome # None
  /\ ~outcome[1].threw
  /\ output = None
  /\ output' = Some(fillCTETemplate(outcome[1].buffer[1], lessonPlan, dayIndex))
  /\ UNCHANGED <<input, orchestratorVars>>

RefillNext == CallFillCTETemplate \/ CallFillCTETemplateAgain

RefillSpec == RefillInit /\ [][RefillNext]_vars

\* C29: filling is idempotent: the second fill of a document, with the same
\* plan and day index, returns the document of the first fill.
C29_Original_FillIsIdempotent ==
  output # None => output[1] = outcome[1]

\* ------------------------------------ the archive of the bulk download
MaxFiles == 3

\* file names as strings of characters: with an extension, with the suffixed
\* form of another name, without a dot
ArchiveNames ==
  {<<"a", ".", "d">>, <<"a", "_", "1", ".", "d">>, <<"a">>}

\* what happens to the file: the download succeeds, the download fails, or
\* reading the downloaded data fails
ArchiveFiles ==
  {[name |-> n, download |-> d] :
     n \in ArchiveNames, d \in {"ok", "error", "read_throws"}}

\* String.prototype.lastIndexOf('.'), 0-based, -1 when there is no dot
lastDotIndex(name) ==
  LET dots == {p \in 1..Len(name) : name[p] = "."}
  IN IF dots = {} THEN 0 - 1
     ELSE (CHOOSE p \in dots : \A q \in dots : q <= p) - 1

\* the name of the entry for a file name seen count times before
zipNameOf(name, count) ==
  IF count > 0
  THEN IF lastDotIndex(name) > 0
       THEN SubSeq(name, 1, lastDotIndex(name)) \o <<"_", ToString(count), ".">>
              \o SubSeq(name, lastDotIndex(name) + 2, Len(name))
       ELSE name \o <<"_", ToString(count)>>
  ELSE name

ArchiveInit ==
  /\ AtRest
  /\ input \in {Some(list) : list \in SeqsUpTo(ArchiveFiles, MaxFiles) \ {<< >>}}
  /\ output = Some([next |-> 1, seenNames |-> [n \in ArchiveNames |-> 0],
                    entries |-> << >>, finalized |-> FALSE])

\* one iteration of for (const file of files)
ProcessFile ==
  /\ ~output[1].finalized
  /\ output[1].next <= Len(input[1])
  /\ LET file == input[1][output[1].next]
         count == output[1].seenNames[file.name]
     IN output' =
          Some([output[1] EXCEPT
                  !.next = @ + 1,
                  !.seenNames = IF file.download = "error" THEN @
                                ELSE [@ EXCEPT ![file.name] = count + 1],
                  !.entries = IF file.download = "ok"
                              THEN Append(@, zipNameOf(file.name, count))
                              ELSE @])
  /\ UNCHANGED <<input, orchestratorVars>>

\* await archive.finalize()
FinalizeArchive ==
  /\ ~output[1].finalized
  /\ output[1].next > Len(input[1])
  /\ output' = Some([output[1] EXCEPT !.finalized = TRUE])
  /\ UNCHANGED <<input, orchestratorVars>>

ArchiveNext == ProcessFile \/ FinalizeArchive

ArchiveSpec == ArchiveInit /\ [][ArchiveNext]_vars

\* C30: the names of the entries of the archive are pairwise distinct,
\* whatever the list of files, also when the name of a file has the suffixed
\* form of another name; a skipped file takes no suffix number.
C30_Original_EntryNamesDistinct ==
  LET entries == output[1].entries
  IN \A a, b \in 1..Len(entries) : a # b => entries[a] # entries[b]
====
